---- MODULE Spec2Model ----
(***************************************************************************)
(* Synapxis chain investigator: identifier classification, retry wrapper,  *)
(* TTL cache, chain lookup adapters, the analyze handler and the risk      *)
(* engine (src/app/main.py, src/app/services/apis.py,                      *)
(* src/app/services/risk_engine.py).                                       *)
(*                                                                         *)
(* Conventions.  Identifiers and addresses are sequences of one-character  *)
(* strings, so that len(), startswith(), strip() and the hex test are      *)
(* computed and not assumed.  Enumerated texts (network, status, kind,     *)
(* flow label) are TLA+ strings.  Python's None is the string "None" in a  *)
(* text-valued field and the one-element sequence <<"None">> in a field    *)
(* holding a character sequence.                                           *)
(***************************************************************************)
EXTENDS Integers, Sequences, FiniteSets, TLC

VARIABLES
  env,      \* process configuration read from the environment (main.py 22-27)
  cls,      \* classifier harness: the string under classification and its result
  rt,       \* with_retries: the frame of one wrapped call
  clock,    \* time.time(), in whole units
  cache,    \* _cache: key -> (inserted_at, value)
  lock,     \* _cache_lock: the thread holding it, or "free"
  th,       \* cache_ttl._wrap: the frame of each thread's current call
  ninv,     \* invocations of the function wrapped by cache_ttl, so far
  req,      \* analyze: the request being handled and the handler's position
  meta,     \* analyze: the Fact Record
  events,   \* analyze: the events list
  transfers,\* analyze: the transfers list
  calls,    \* the lookups made for the request, in order
  rendered  \* the invocations of generate_docx_and_maybe_pdf for the request

vars == <<env, cls, rt, clock, cache, lock, th, ninv,
          req, meta, events, transfers, calls, rendered>>

reqVars == <<req, meta, events, transfers, calls, rendered>>

cacheVars == <<clock, cache, lock, th, ninv>>

(***************************************************************************)
(* Bounds of the model                                                     *)
(***************************************************************************)
MaxPad == 1          \* whitespace characters put around an input
MaxAttempts == 4     \* largest `attempts` given to with_retries
MaxDelay == 2        \* largest `delay` (in units of time) given to with_retries
MaxTime == 2         \* the clock stops at this time
MaxTtl == 2          \* largest ttl_s given to cache_ttl
MaxInv == 2          \* invocations of the function wrapped by cache_ttl
MaxLogs == 3         \* logs in a receipt handed to the transfer parser
MaxFlowLogs == 2     \* Transfer logs in a receipt whose flow is labelled
MaxReports == 2      \* reports written one after the other
MaxLookups == 3      \* calls of the cached lookups that follow one another

(***************************************************************************)
(* Program constants                                                       *)
(***************************************************************************)
TX_HASH_LEN == 66        \* is_tx_hash: len(value) == 66
ADDRESS_LEN == 42        \* is_address: len(value) == 42
TRON_TXID_LEN == 64      \* is_tron_txid: len(s) == 64
TRON_ADDR_MIN == 34      \* is_tron_address: 34 <= len(s)
TRON_ADDR_MAX == 36      \* is_tron_address: len(s) <= 36

(***************************************************************************)
(* Strings                                                                 *)
(***************************************************************************)
Rep(c, n) == [i \in 1..n |-> c]

Str2(a, b) == <<a, b>>

HexChars == {"0", "1", "2", "3", "4", "5", "6", "7", "8", "9",
             "a", "b", "c", "d", "e", "f", "A", "B", "C", "D", "E", "F"}

Whitespace == {" ", "\t", "\n"}

\* str.startswith(prefix)
StartsWith(s, p) ==
  /\ Len(s) >= Len(p)
  /\ \A i \in 1..Len(p) : s[i] = p[i]

\* str.strip(): leading and trailing whitespace removed
RECURSIVE LStrip(_)
LStrip(s) == IF s # <<>> /\ Head(s) \in Whitespace THEN LStrip(Tail(s)) ELSE s

RECURSIVE RStrip(_)
RStrip(s) ==
  IF s # <<>> /\ s[Len(s)] \in Whitespace THEN RStrip(SubSeq(s, 1, Len(s) - 1)) ELSE s

Strip(s) == RStrip(LStrip(s))

Prefix0x == Str2("0", "x")

(***************************************************************************)
(* Identifier detection (apis.py 49-53, main.py 47-72)                     *)
(***************************************************************************)
\* mutant: the length test forgets the two characters of the prefix
is_tx_hash_NoPrefixLen(value) == StartsWith(value, Prefix0x) /\ Len(value) = TRON_TXID_LEN

is_tx_hash(value) == StartsWith(value, Prefix0x) /\ Len(value) = TX_HASH_LEN

is_address(value) == StartsWith(value, Prefix0x) /\ Len(value) = ADDRESS_LEN

is_tron_txid(s) ==
  /\ Len(s) = TRON_TXID_LEN
  /\ ~StartsWith(s, Prefix0x)
  /\ \A i \in 1..Len(s) : s[i] \in HexChars

is_tron_address(s) ==
  /\ StartsWith(s, <<"T">>)
  /\ TRON_ADDR_MIN <= Len(s)
  /\ Len(s) <= TRON_ADDR_MAX

normalize_input(raw) == Strip(raw)

ReasonEmpty == "Entrada vacia."
ReasonFormat == "Formato no reconocido."

\* mutant: the empty input is refused without a reason
validate_input_NoReason(raw, enable_tron) ==
  IF normalize_input(raw) = <<>> THEN <<"invalid", "None">>
  ELSE <<"invalid", ReasonFormat>>

\* validate_input(s) under a given ENABLE_TRON: <<kind, reason>>
validate_input(raw, enable_tron) ==
  LET s == normalize_input(raw)
  IN  IF s = <<>> THEN <<"invalid", ReasonEmpty>>
      ELSE IF is_tx_hash(s) THEN <<"tx", "None">>
      ELSE IF enable_tron /\ is_tron_txid(s) THEN <<"tx_tron", "None">>
      ELSE IF is_address(s) THEN <<"address", "None">>
      ELSE <<"invalid", ReasonFormat>>

(***************************************************************************)
(* Inputs of the classifier harness: padding, a prefix, a body of one      *)
(* repeated character at the lengths around the ones the detectors test,   *)
(* optionally with one character of the body replaced.                     *)
(***************************************************************************)
Pads == UNION {{Rep(w, n) : w \in {" ", "\t"}} : n \in 0..MaxPad}

BodyLens == {0, 1, 33, 34, 35, 36, 39, 40, 41, 62, 63, 64, 65}

Bodies ==
  {Rep(c, n) : c \in {"a", "F", "7"}, n \in BodyLens}
    \cup {[i \in 1..n |-> IF i = n THEN "g" ELSE "a"] : n \in BodyLens \ {0}}

ClsInputs ==
  {l \o p \o b \o t :
     l \in Pads, t \in Pads, p \in {<<>>, Prefix0x, <<"T">>, Str2("0", "X")}, b \in Bodies}

(***************************************************************************)
(* Classifier harness                                                      *)
(***************************************************************************)
ClsIdle == [pc |-> "idle", raw |-> <<>>, kind |-> "None", reason |-> "None"]

Classify ==
  /\ cls.pc = "in"
  /\ LET r == validate_input(cls.raw, env.ENABLE_TRON)
     IN  cls' = [cls EXCEPT !.pc = "out", !.kind = r[1], !.reason = r[2]]
  /\ UNCHANGED <<env, rt, cacheVars, reqVars>>

(***************************************************************************)
(* with_retries (main.py 77-89)                                            *)
(*                                                                         *)
(* The wrapped fn is the environment: each invocation either returns a     *)
(* value or raises an exception.  hist records what fn did, in order.      *)
(***************************************************************************)
Max(a, b) == IF a >= b THEN a ELSE b

NoValue == <<"None", 0>>

RtIdle ==
  [st |-> "idle", attempts |-> 0, delay |-> 0, i |-> 0, last_exc |-> NoValue,
   ret |-> NoValue, exc |-> NoValue, slept |-> <<>>, hist |-> <<>>]

\* what one invocation of fn can do
FnOutcomes == {[ok |-> TRUE, v |-> "v1"], [ok |-> TRUE, v |-> "v2"],
               [ok |-> FALSE, v |-> "Timeout"], [ok |-> FALSE, v |-> "ValueError"]}

\* the value an invocation yields is tagged with the number of the invocation
Tagged(o, n) == [ok |-> o.ok, v |-> <<o.v, n>>]

\* mutant: the first failure is raised at once, nothing is retried
RetryIter_NoRetry(f, o) ==
  IF o.ok
    THEN [f EXCEPT !.st = "returned", !.ret = o.v, !.hist = Append(@, o)]
    ELSE [f EXCEPT !.st = "raised", !.exc = o.v, !.last_exc = o.v,
                   !.i = @ + 1, !.hist = Append(@, o)]

\* one iteration of `for i in range(max(1, attempts))`, and the raise after
\* the loop when that was its last iteration
RetryIter(f, o) ==
  IF o.ok
    THEN [f EXCEPT !.st = "returned", !.ret = o.v, !.hist = Append(@, o)]
    ELSE LET g == [f EXCEPT !.last_exc = o.v,
                            !.slept = Append(@, f.delay * (f.i + 1)),
                            !.i = @ + 1,
                            !.hist = Append(@, o)]
         IN  IF g.i >= Max(1, f.attempts)
               THEN [g EXCEPT !.st = "raised", !.exc = g.last_exc]
               ELSE g

RetryCall ==
  /\ rt.st = "loop"
  /\ \E o \in FnOutcomes :
       rt' = RetryIter(rt, Tagged(o, Len(rt.hist) + 1))
  /\ UNCHANGED <<env, cls, cacheVars, reqVars>>

(***************************************************************************)
(* cache_ttl (main.py 94-112)                                              *)
(*                                                                         *)
(* The wrapped fn is the environment: an invocation returns a fresh value  *)
(* or raises.  Threads run _wrap concurrently; the two `with _cache_lock`  *)
(* blocks are entered by CacheAcquire and left by CacheRead / CacheWrite.  *)
(***************************************************************************)
Threads == {"t1", "t2"}

CacheKeys == {<<"fn", "x">>, <<"fn", "y">>}

NoEntry == [some |-> FALSE, ts |-> 0, val |-> NoValue]

Entry(ts, val) == [some |-> TRUE, ts |-> ts, val |-> val]

\* _cache.get(key)
CacheGet(c, key) == IF key \in DOMAIN c THEN c[key] ELSE NoEntry

\* mutant: an entry whose age equals ttl_s still counts as a hit
CacheFresh_Inclusive(hit, now, ttl_s) == hit.some /\ now - hit.ts <= ttl_s

\* `hit and now - hit[0] < ttl_s`
CacheFresh(hit, now, ttl_s) == hit.some /\ now - hit.ts < ttl_s

\* _cache[key] = (now, res)
CachePut(c, key, now, res) ==
  [k \in DOMAIN c \cup {key} |-> IF k = key THEN Entry(now, res) ELSE c[k]]

ThIdle ==
  [pc |-> "idle", key |-> <<"fn", "x">>, now |-> 0, hit |-> NoEntry,
   res |-> NoValue, inv |-> 0, out |-> [k |-> "none", v |-> NoValue]]

\* _wrap is entered: key and now are computed (lines 101-102)
CacheCall(t) ==
  /\ th[t].pc \in {"idle", "done"}
  /\ \E key \in CacheKeys :
       th' = [th EXCEPT ![t] = [ThIdle EXCEPT !.pc = "read_lock", !.key = key,
                                              !.now = clock]]
  /\ UNCHANGED <<env, cls, rt, clock, cache, lock, ninv, reqVars>>

\* `with _cache_lock:` is entered (lines 103 and 108)
CacheAcquire(t) ==
  /\ th[t].pc \in {"read_lock", "write_lock"}
  /\ lock = "free"
  /\ lock' = t
  /\ th' = [th EXCEPT ![t].pc = IF @ = "read_lock" THEN "read" ELSE "write"]
  /\ UNCHANGED <<env, cls, rt, clock, cache, ninv, reqVars>>

\* mutant: the read-check does not release the lock
CacheRead_KeepLock(t) ==
  /\ th[t].pc = "read"
  /\ lock = t
  /\ LET hit == CacheGet(cache, th[t].key)
     IN  th' = [th EXCEPT ![t] =
                  IF CacheFresh(hit, th[t].now, env.CACHE_TTL_S)
                    THEN [@ EXCEPT !.pc = "done", !.hit = hit,
                                   !.out = [k |-> "ret", v |-> hit.val]]
                    ELSE [@ EXCEPT !.pc = "compute", !.hit = hit]]
  /\ lock' = lock
  /\ UNCHANGED <<env, cls, rt, clock, cache, ninv, reqVars>>

\* lines 104-106: the read-check, and the return of a hit
CacheRead(t) ==
  /\ th[t].pc = "read"
  /\ lock = t
  /\ LET hit == CacheGet(cache, th[t].key)
     IN  th' = [th EXCEPT ![t] =
                  IF CacheFresh(hit, th[t].now, env.CACHE_TTL_S)
                    THEN [@ EXCEPT !.pc = "done", !.hit = hit,
                                   !.out = [k |-> "ret", v |-> hit.val]]
                    ELSE [@ EXCEPT !.pc = "compute", !.hit = hit]]
  /\ lock' = "free"
  /\ UNCHANGED <<env, cls, rt, clock, cache, ninv, reqVars>>

\* mutant: the exception of fn is stored under the key like a result
CacheCompute_StoreExc(t) ==
  /\ th[t].pc = "compute"
  /\ ninv < MaxInv
  /\ ninv' = ninv + 1
  /\ \E ok \in BOOLEAN :
       IF ok
         THEN /\ th' = [th EXCEPT ![t].pc = "write_lock", ![t].inv = @ + 1,
                                  ![t].res = <<"v", ninv + 1>>]
              /\ cache' = cache
         ELSE /\ th' = [th EXCEPT ![t].pc = "done", ![t].inv = @ + 1,
                                  ![t].out = [k |-> "exc", v |-> <<"e", ninv + 1>>]]
              /\ cache' = CachePut(cache, th[t].key, th[t].now, <<"e", ninv + 1>>)
  /\ UNCHANGED <<env, cls, rt, clock, lock, reqVars>>

\* line 107: res = fn(*args, **kwargs), outside the lock; fn may raise
CacheCompute(t) ==
  /\ th[t].pc = "compute"
  /\ ninv < MaxInv
  /\ ninv' = ninv + 1
  /\ \E ok \in BOOLEAN :
       th' = [th EXCEPT ![t] =
                IF ok
                  THEN [@ EXCEPT !.pc = "write_lock", !.inv = @ + 1,
                                 !.res = <<"v", ninv + 1>>]
                  ELSE [@ EXCEPT !.pc = "done", !.inv = @ + 1,
                                 !.out = [k |-> "exc", v |-> <<"e", ninv + 1>>]]]
  /\ UNCHANGED <<env, cls, rt, clock, cache, lock, reqVars>>

\* lines 109-110: the entry is stored and res returned
CacheWrite(t) ==
  /\ th[t].pc = "write"
  /\ lock = t
  /\ cache' = CachePut(cache, th[t].key, th[t].now, th[t].res)
  /\ lock' = "free"
  /\ th' = [th EXCEPT ![t].pc = "done", ![t].out = [k |-> "ret", v |-> th[t].res]]
  /\ UNCHANGED <<env, cls, rt, clock, ninv, reqVars>>

\* time passes
Tick ==
  /\ clock < MaxTime
  /\ clock' = clock + 1
  /\ UNCHANGED <<env, cls, rt, cache, lock, th, ninv, reqVars>>

CacheIdle ==
  /\ clock = 0
  /\ cache = <<>>
  /\ lock = "free"
  /\ th = [t \in Threads |-> ThIdle]
  /\ ninv = 0

(***************************************************************************)
(* Values                                                                  *)
(*                                                                         *)
(* A field that holds a character sequence holds <<"None">> for None.  A   *)
(* number-valued field holds <<"int", n>>, or <<"None">>.  A TRX amount is *)
(* the exact quotient <<"num", n, d>> standing for n / d.                  *)
(***************************************************************************)
None == <<"None">>

Num(n) == <<"int", n>>

IsInt(v) == Len(v) = 2 /\ v[1] = "int"

Quot(n, d) == <<"num", n, d>>

IsQuot(v) == Len(v) = 3 /\ v[1] = "num"

\* a truthy str: neither None nor empty
TruthyStr(s) == s # None /\ s # <<>>

HexDigit(c) ==
  CASE c = "0" -> 0 [] c = "1" -> 1 [] c = "2" -> 2 [] c = "3" -> 3
    [] c = "4" -> 4 [] c = "5" -> 5 [] c = "6" -> 6 [] c = "7" -> 7
    [] c = "8" -> 8 [] c = "9" -> 9
    [] c \in {"a", "A"} -> 10 [] c \in {"b", "B"} -> 11 [] c \in {"c", "C"} -> 12
    [] c \in {"d", "D"} -> 13 [] c \in {"e", "E"} -> 14 [] c \in {"f", "F"} -> 15

RECURSIVE HexDigits(_)
HexDigits(s) ==
  IF s = <<>> THEN 0
  ELSE HexDigits(SubSeq(s, 1, Len(s) - 1)) * 16 + HexDigit(s[Len(s)])

\* int(s, 16) accepts the digits with or without the 0x prefix
HexBody(s) ==
  IF StartsWith(s, Prefix0x) \/ StartsWith(s, Str2("0", "X"))
    THEN SubSeq(s, 3, Len(s)) ELSE s

\* int(s, 16) raises (TypeError for None, ValueError for a malformed text)
HexRaises(s) ==
  \/ s = None
  \/ HexBody(s) = <<>>
  \/ \E i \in 1..Len(HexBody(s)) : HexBody(s)[i] \notin HexChars

HexValue(s) == HexDigits(HexBody(s))

\* hex_to_int_safe (main.py 117-121)
hex_to_int_safe(h) ==
  IF h # None /\ StartsWith(h, Prefix0x) /\ ~HexRaises(h)
    THEN Num(HexValue(h)) ELSE None

LowerChar(c) ==
  CASE c = "A" -> "a" [] c = "B" -> "b" [] c = "C" -> "c" [] c = "D" -> "d"
    [] c = "E" -> "e" [] c = "F" -> "f" [] c = "X" -> "x" [] c = "T" -> "t"
    [] c = "N" -> "n" [] OTHER -> c

\* str.lower()
Lower(s) == [i \in 1..Len(s) |-> LowerChar(s[i])]

(***************************************************************************)
(* HTTP                                                                    *)
(*                                                                         *)
(* What one HTTP GET does is the environment's choice: k = "exc" is a      *)
(* network error raised by the request, k = "status" a response whose      *)
(* raise_for_status() raises, k = "nonjson" a response whose json()        *)
(* raises, k = "json" a response with the JSON document `body`.            *)
(***************************************************************************)
HttpFailed(o) == o.k \in {"exc", "status"}

Raise == [raised |-> TRUE]

Return(v) == [raised |-> FALSE, val |-> v]

(***************************************************************************)
(* Etherscan V2 adapters (apis.py 64-107)                                  *)
(***************************************************************************)
NoReceipt ==
  [blockNumber |-> None, status |-> None, from |-> None, to |-> None,
   gasUsed |-> None, effectiveGasPrice |-> None, logs |-> <<>>]

\* {"status": "0", "message": "non_json_response", "result": None}
NonJsonDoc == [kind |-> "dict", rk |-> "none", result |-> NoReceipt]

\* _etherscan_v2_proxy_receipt
etherscan_v2_proxy_receipt(o) ==
  IF HttpFailed(o) THEN Raise
  ELSE IF o.k = "nonjson" THEN Return(NonJsonDoc)
  ELSE Return(o.body)

\* isinstance(data, dict) and isinstance(data.get("result"), dict)
HasResultDict(data) == data.kind = "dict" /\ data.rk = "dict"

\* get_tx_receipt: <<json, chain>>, or the exception of the request
get_tx_receipt(chain, oPolygon, oEthereum) ==
  LET probe == chain \in {"auto", "polygon"}
      p == etherscan_v2_proxy_receipt(oPolygon)
      e == etherscan_v2_proxy_receipt(oEthereum)
  IN  IF probe /\ p.raised THEN Raise
      ELSE IF probe /\ HasResultDict(p.val) /\ TruthyStr(p.val.result.blockNumber)
        THEN Return(<<p.val, "polygon">>)
      ELSE IF e.raised THEN Raise
      ELSE Return(<<e.val, "ethereum">>)

\* the HTTP requests get_tx_receipt made: the polygon probe, the ethereum probe
TxReceiptRequests(chain, oPolygon, oEthereum) ==
  LET probe == chain \in {"auto", "polygon"}
      p == etherscan_v2_proxy_receipt(oPolygon)
  IN  IF ~probe THEN <<oEthereum>>
      ELSE IF p.raised THEN <<oPolygon>>
      ELSE IF HasResultDict(p.val) /\ TruthyStr(p.val.result.blockNumber)
        THEN <<oPolygon>>
      ELSE <<oPolygon, oEthereum>>

NonJsonBlock == [kind |-> "dict", rk |-> "none", timestamp |-> None]

\* get_block_info
get_block_info(o) ==
  IF HttpFailed(o) THEN Raise
  ELSE IF o.k = "nonjson" THEN Return(NonJsonBlock)
  ELSE Return(o.body)

(***************************************************************************)
(* Balance and nonce (apis.py 112-159)                                     *)
(***************************************************************************)
\* _etherscan_v2_proxy_eth_getBalance / _eth_getTransactionCount: json()
\* is not guarded here, so a non-JSON response raises as well
etherscan_v2_proxy_value(o) ==
  IF HttpFailed(o) \/ o.k = "nonjson" THEN Raise ELSE Return(o.body)

\* one try block of get_eth_address_stats: the field it leaves in `out`
StatsField(o) ==
  LET r == etherscan_v2_proxy_value(o)
  IN  IF r.raised THEN None
      ELSE IF r.val.kind = "dict" /\ r.val.result # None /\ ~HexRaises(r.val.result)
        THEN Num(HexValue(r.val.result))
      ELSE None

\* mutant: one try block around both calls, a failed balance call ends it
get_eth_address_stats_OneTry(oBalance, oNonce) ==
  IF etherscan_v2_proxy_value(oBalance).raised
    THEN [balance_wei |-> None, nonce |-> None]
    ELSE [balance_wei |-> StatsField(oBalance), nonce |-> StatsField(oNonce)]

\* get_eth_address_stats
get_eth_address_stats(oBalance, oNonce) ==
  [balance_wei |-> StatsField(oBalance), nonce |-> StatsField(oNonce)]

(***************************************************************************)
(* ERC-20 transfers of a receipt (apis.py 164-187)                         *)
(***************************************************************************)
TRANSFER_SIG ==
  << "0", "x", "d", "d", "f", "2", "5", "2", "a", "d", "1",
     "b", "e", "2", "c", "8", "9", "b", "6", "9", "c", "2",
     "b", "0", "6", "8", "f", "c", "3", "7", "8", "d", "a",
     "a", "9", "5", "2", "b", "a", "7", "f", "1", "6", "3",
     "c", "4", "a", "1", "1", "6", "2", "8", "f", "5", "5",
     "a", "4", "d", "f", "5", "2", "3", "b", "3", "e", "f" >>

\* s[-40:]
Last40(s) == IF Len(s) <= 40 THEN s ELSE SubSeq(s, Len(s) - 39, Len(s))

\* the log carries the Transfer signature as its first topic
IsTransferLog(lg) == lg.topics # <<>> /\ Lower(lg.topics[1]) = TRANSFER_SIG

\* the body of the loop raises on this log: topics[1] or topics[2] is
\* missing, or int(data, 16) fails
LogRaises(lg) == IsTransferLog(lg) /\ (Len(lg.topics) < 3 \/ HexRaises(lg.data))

TransferOf(lg) ==
  [from |-> Prefix0x \o Last40(lg.topics[2]),
   to |-> Prefix0x \o Last40(lg.topics[3]),
   value_raw |-> HexValue(lg.data),
   contract |-> lg.address]

\* the loop over the logs sits inside one try block: the first log that
\* raises ends the loop, and what was collected before it is returned
RECURSIVE ParseLogs(_, _)
ParseLogs(logs, out) ==
  IF logs = <<>> THEN out
  ELSE IF LogRaises(Head(logs)) THEN out
  ELSE IF IsTransferLog(Head(logs))
    THEN ParseLogs(Tail(logs), Append(out, TransferOf(Head(logs))))
  ELSE ParseLogs(Tail(logs), out)

\* parse_erc20_transfers_from_receipt, of a receipt whose "result" is a dict
\* (analyze calls it on no other)
parse_erc20_transfers_from_receipt(rcpt) == ParseLogs(rcpt.result.logs, <<>>)

(***************************************************************************)
(* TronScan adapters (apis.py 192-252)                                     *)
(***************************************************************************)
\* get_tron_tx: the normalized dict (found = TRUE), or None (found = FALSE)
NoTronTx ==
  [found |-> FALSE, block |-> None, timestamp |-> None, from |-> None,
   to |-> None, confirmed |-> FALSE, fee |-> None]

get_tron_tx(o) ==
  IF o.k = "json" /\ o.body.kind = "dict" /\ TruthyStr(o.body.hash)
    THEN [found |-> TRUE,
          block |-> o.body.block,
          timestamp |-> o.body.timestamp,
          from |-> o.body.ownerAddress,
          to |-> o.body.toAddress,
          confirmed |-> o.body.confirmed,
          fee |-> o.body.net_fee]
    ELSE NoTronTx

SUN_PER_TRX == 1000000

\* the TRX entry of withPriceTokens that carries a balance, if any
TrxToken(tokens) ==
  LET idx == {i \in 1..Len(tokens) : tokens[i].tokenAbbr = "TRX" /\ tokens[i].balance # None}
  IN  IF idx = {} THEN None
      ELSE tokens[CHOOSE i \in idx : \A j \in idx : i <= j].balance

\* mutant: the TRX entry of withPriceTokens is looked at first
get_tron_account_TokensFirst(o) ==
  IF o.k # "json" THEN [balance_trx |-> None]
  ELSE IF o.body.kind # "dict" THEN [balance_trx |-> None]
  ELSE IF TrxToken(o.body.withPriceTokens) # None
    THEN [balance_trx |-> Quot(TrxToken(o.body.withPriceTokens)[2], 1)]
  ELSE IF o.body.hasBalance /\ o.body.balance # None
    THEN [balance_trx |-> Quot(o.body.balance[2], SUN_PER_TRX)]
  ELSE [balance_trx |-> None]

\* get_tron_account of apis.py: {"balance_trx": ...}
\* body.balance is None when the document has no usable "balance" key;
\* "balance" is looked at first, withPriceTokens only when it is absent
get_tron_account(o) ==
  IF o.k # "json" THEN [balance_trx |-> None]
  ELSE IF o.body.kind # "dict" THEN [balance_trx |-> None]
  ELSE IF o.body.hasBalance
    THEN IF o.body.balance # None
           THEN [balance_trx |-> Quot(o.body.balance[2], SUN_PER_TRX)]
           ELSE [balance_trx |-> None]
  ELSE IF TrxToken(o.body.withPriceTokens) # None
    THEN [balance_trx |-> Quot(TrxToken(o.body.withPriceTokens)[2], 1)]
  ELSE [balance_trx |-> None]

(***************************************************************************)
(* Fact Record: a dict, here a function from its keys                      *)
(***************************************************************************)
Has(m, k) == k \in DOMAIN m

Get(m, k, d) == IF k \in DOMAIN m THEN m[k] ELSE d

Put(m, k, v) == [x \in DOMAIN m \cup {k} |-> IF x = k THEN v ELSE m[x]]

\* str.lower() of the texts a Fact Record holds as network, status, flow_label
LowerText(t) ==
  CASE t = "N/A" -> "n/a"
    [] t = "N/D" -> "n/d"
    [] t = "Success" -> "success"
    [] t = "Failed" -> "failed"
    [] t = "Unknown" -> "unknown"
    [] t = "Pending/Unknown" -> "pending/unknown"
    [] OTHER -> t

(***************************************************************************)
(* Risk engine (risk_engine.py)                                            *)
(***************************************************************************)
SCORE_NO_TOKENS == 10       \* risk_engine.py 84
SCORE_NO_STABLE == 10       \* risk_engine.py 92
SCORE_TRON_NO_TXS == 20     \* risk_engine.py 99
TRON_BALANCE_ACTIVE == 500  \* risk_engine.py 103
SCORE_TRON_LOW == 10        \* risk_engine.py 106
SCORE_OUTGOING == 5         \* risk_engine.py 111
SCORE_NOT_SUCCESS == 10     \* risk_engine.py 114
SCORE_PONZI == 25           \* risk_engine.py 117
SCORE_MAX == 100            \* risk_engine.py 121
BAND_HIGH == 70             \* risk_engine.py 33
BAND_MEDIUM == 40           \* risk_engine.py 35

Reason(id, n) == [id |-> id, n |-> n]

\* mutant: DAI and USDC do not count as stablecoins
StableSymbols_OnlyUSDT == {"USDT"}

\* mutant: a score equal to the upper threshold is not yet in the upper band
classify_score_Strict(score) ==
  IF score > BAND_HIGH THEN "ALTO"
  ELSE IF score >= BAND_MEDIUM THEN "MEDIO"
  ELSE "BAJO"

classify_score(score) ==
  IF score >= BAND_HIGH THEN "ALTO"
  ELSE IF score >= BAND_MEDIUM THEN "MEDIO"
  ELSE "BAJO"

\* safe_get: the JSON of a 200 response, {} otherwise
SafeGetEmpty(o) == o.k # "json"

\* get_eth_tokens: the list of token symbols; it raises on a document whose
\* "data" is not a dict or whose item has a non-numeric balance
EthTokensRaises(o) == ~SafeGetEmpty(o) /\ o.body.malformed

get_eth_tokens(o) == IF SafeGetEmpty(o) THEN <<>> ELSE o.body.items

StableSymbols == {"USDT", "USDC", "DAI"}

\* get_tron_account of risk_engine.py: {"balance_trx", "txs"} from data["data"][0]
RiskTronRaises(o) ==
  ~SafeGetEmpty(o) /\ o.body.kind = "dict" /\ o.body.data # <<>> /\ o.body.data[1].malformed

risk_get_tron_account(o) ==
  IF SafeGetEmpty(o) \/ o.body.kind # "dict" \/ o.body.data = <<>>
    THEN [balance_trx |-> Num(0), txs |-> 0]
    ELSE [balance_trx |-> Quot(o.body.data[1].balance, SUN_PER_TRX),
          txs |-> o.body.data[1].totalTransactionCount]

\* a balance_trx as evaluate reads it: 0 (an int) or a quotient
AboveTrx(b, limit) == IF IsQuot(b) THEN b[2] > limit * b[3] ELSE b[2] > limit

\* meta.get("from") or meta.get("to") or meta.get("tx_hash") or ""
RiskAddress(fr) ==
  IF TruthyStr(Get(fr, "from", None)) THEN fr["from"]
  ELSE IF TruthyStr(Get(fr, "to", None)) THEN fr["to"]
  ELSE IF TruthyStr(Get(fr, "tx_hash", None)) THEN fr["tx_hash"]
  ELSE <<>>

RiskBranch(fr) ==
  LET network == LowerText(Get(fr, "network", ""))
      address == RiskAddress(fr)
  IN  IF network \in {"ethereum", "polygon"} /\ StartsWith(address, Prefix0x) THEN "evm"
      ELSE IF network = "tron" /\ StartsWith(address, <<"T">>) THEN "tron"
      ELSE "none"

\* rules 1 and 2: <<score, reasons, meta>> after the chain-specific block
RiskChainRules(fr, o) ==
  IF RiskBranch(fr) = "evm" THEN
    LET tokens == get_eth_tokens(o)
        m == Put(Put(fr, "token_count", Len(tokens)), "token_list", tokens)
        stable == {i \in 1..Len(tokens) : tokens[i] \in StableSymbols}
    IN  IF tokens = <<>> THEN <<SCORE_NO_TOKENS, <<Reason("sin_tokens", 0)>>, m>>
        ELSE IF stable # {} THEN <<0, <<Reason("stablecoins", Cardinality(stable))>>, m>>
        ELSE <<SCORE_NO_STABLE, <<Reason("sin_stablecoins", 0)>>, m>>
  ELSE IF RiskBranch(fr) = "tron" THEN
    LET acc == risk_get_tron_account(o)
        m == Put(fr, "from_balance_trx", acc.balance_trx)
        s1 == IF acc.txs = 0 THEN SCORE_TRON_NO_TXS ELSE 0
        r1 == IF acc.txs = 0 THEN Reason("sin_transacciones", 0)
                             ELSE Reason("transacciones", acc.txs)
        high == AboveTrx(acc.balance_trx, TRON_BALANCE_ACTIVE)
        s2 == IF high THEN 0 ELSE SCORE_TRON_LOW
        r2 == IF high THEN Reason("balance_superior_500", 0)
                      ELSE Reason("balance_bajo_500", 0)
    IN  <<s1 + s2, <<r1, r2>>, m>>
  ELSE <<0, <<>>, fr>>

\* evaluate raises when the lookup of its chain-specific block raises
RiskRaises(fr, o) ==
  \/ RiskBranch(fr) = "evm" /\ EthTokensRaises(o)
  \/ RiskBranch(fr) = "tron" /\ RiskTronRaises(o)

\* mutant: every record is taken to be on the list
HasPonzi_Always(fr) == TRUE

\* "ponzi" in (meta.get("risk_reasons") or [])
HasPonzi(fr) ==
  Has(fr, "risk_reasons")
    /\ \E i \in 1..Len(fr["risk_reasons"]) : fr["risk_reasons"][i] = Reason("ponzi", 0)

\* evaluate(meta, transfers): the RiskResult, and meta as evaluate leaves it
evaluate(fr, trs, o) ==
  LET c == RiskChainRules(fr, o)
      m == c[3]
      out == Has(m, "flow_label") /\ m["flow_label"] = "saliente"
      bad == Has(m, "status") /\ LowerText(m["status"]) # "success"
      ponzi == HasPonzi(m)
      raw == c[1] + (IF out THEN SCORE_OUTGOING ELSE 0)
                  + (IF bad THEN SCORE_NOT_SUCCESS ELSE 0)
                  + (IF ponzi THEN SCORE_PONZI ELSE 0)
      score == IF raw > SCORE_MAX THEN SCORE_MAX ELSE raw
      reasons == c[2] \o (IF out THEN <<Reason("flujo_saliente", 0)>> ELSE <<>>)
                      \o (IF bad THEN <<Reason("incompleta_o_fallida", 0)>> ELSE <<>>)
                      \o (IF ponzi THEN <<Reason("lista_ponzi", 0)>> ELSE <<>>)
  IN  [meta |-> m, score |-> score, band |-> classify_score(score), reasons |-> reasons]

(***************************************************************************)
(* analyze (main.py 139-384)                                               *)
(*                                                                         *)
(* One request is handled at a time.  An action is the code from one       *)
(* external call up to the next one; the last action of a branch includes  *)
(* the call of the report renderer and the return of the response.         *)
(***************************************************************************)
TextNA == <<"N", "/", "A">>

TagNA == <<"N/A">>

TimeOf(t) == <<"time", t>>

\* identifiers submitted to analyze
TxA == Prefix0x \o Rep("a", 64)
AddrA == Prefix0x \o Rep("a", 40)
AddrB == Prefix0x \o Rep("b", 40)
AddrAUpper == Prefix0x \o Rep("A", 40)
TronTxA == Rep("a", 64)
TronA == <<"T">> \o Rep("a", 33)
TronB == <<"T">> \o Rep("b", 33)

AnalyzeInputs ==
  {<<>>, <<" ">>, <<"z", "z">>, TxA, <<" ">> \o TxA, TronTxA, AddrA, TronA,
   <<" ">> \o TronA \o <<" ">>}

Chains == {"auto", "ethereum", "polygon", "tron"}

ReqIdle ==
  [pc |-> "idle", input_id |-> <<>>, chain |-> "auto", kind |-> "None",
   err |-> "None", summary |-> "None", files |-> 0, escaped |-> FALSE,
   risk_calls |-> 0, detected_chain |-> "None", rcpt |-> NonJsonDoc,
   acc |-> [balance_trx |-> None], tx |-> NoTronTx, checks |-> <<>>]

\* one invocation of a lookup adapter: wr is 0 for a direct call and the
\* number of the call site for a call made through with_retries; attempt is
\* the iteration of the retry loop; failed says that every HTTP request the
\* invocation sent ended in a network error or an error status; raised says
\* that the adapter raised to its caller
Call(fn, wr, attempt, failed, raised) ==
  [fn |-> fn, wr |-> wr, attempt |-> attempt, failed |-> failed, raised |-> raised]

\* _safe_first5 (report.py 23-30)
safe_first5(identifier) ==
  LET t == Strip(identifier)
  IN  IF identifier = <<>> THEN Rep("X", 5)
      ELSE SubSeq(t, 1, IF Len(t) < 5 THEN Len(t) ELSE 5)

\* generate_docx_and_maybe_pdf(identifier, meta, events, transfers): what it
\* was handed, the short name of its artifacts and how many it produced
Render(identifier, m, ev, tr, pdf) ==
  [identifier |-> identifier, short |-> safe_first5(identifier), meta |-> m,
   nevents |-> Len(ev), transfers |-> tr, files |-> IF pdf THEN 2 ELSE 1]

\* meta["risk_score"], meta["risk_band"], meta["risk_reasons"] = ...
WithRisk(r) ==
  Put(Put(Put(r.meta, "risk_score", r.score), "risk_band", r.band), "risk_reasons", r.reasons)

\* lines 147-151
TronAddressMeta(input_text) ==
  [network |-> "tron", block |-> TagNA, status |-> "N/A", timestamp |-> TimeOf(clock),
   from |-> input_text, to |-> TextNA, tx_hash |-> input_text, flow_label |-> "N/D"]

\* lines 185-189
DefaultMeta(input_id) ==
  [network |-> "N/A", block |-> TagNA, status |-> "N/A", timestamp |-> TagNA,
   from |-> TextNA, to |-> TextNA, tx_hash |-> input_id, balance |-> TagNA,
   flow_label |-> "N/D"]

\* mutant: the hint auto is taken for polygon
AddressMeta_Auto(m, input_id, chain) ==
  [m EXCEPT !["network"] = IF chain \in {"polygon", "auto"} THEN "polygon" ELSE "ethereum",
            !["status"] = "N/A", !["from"] = input_id, !["to"] = TextNA,
            !["timestamp"] = TimeOf(clock)]

\* lines 333-339
AddressMeta(m, input_id, chain) ==
  [m EXCEPT !["network"] = IF chain = "polygon" THEN "polygon" ELSE "ethereum",
            !["status"] = "N/A", !["from"] = input_id, !["to"] = TextNA,
            !["timestamp"] = TimeOf(clock)]

NewFrame == [RtIdle EXCEPT !.st = "loop", !.attempts = env.RETRY_ATTEMPTS, !.delay = 1]

\* line 146
TakesTronEarlyReturn(input_text) == is_tron_address(input_text)

\* mutant: an invalid identifier falls through to the lookups of the tx branch
KindAfterValidation_FallThrough(kind) == IF kind = "invalid" THEN "tx" ELSE kind

\* line 178: the kind analyze goes on with
KindAfterValidation(kind) == kind

\* the request arrives: lines 140-146, 176-190 and the code of the chosen
\* branch up to its first lookup
Submit(input_id, chain) ==
  /\ req.pc = "idle"
  /\ LET input_text == Strip(input_id)
         v == validate_input(input_id, env.ENABLE_TRON)
         kind == KindAfterValidation(v[1])
         r == [ReqIdle EXCEPT !.input_id = input_id, !.chain = chain]
     IN  IF TakesTronEarlyReturn(input_text) THEN
           /\ req' = [r EXCEPT !.pc = "tron_addr_account", !.kind = "address_tron"]
           /\ meta' = TronAddressMeta(input_text)
           /\ rt' = RtIdle
         ELSE IF kind = "invalid" THEN
           /\ req' = [r EXCEPT !.pc = "done", !.kind = "invalid", !.err = v[2],
                               !.summary = "Entrada invalida"]
           /\ meta' = <<>>
           /\ rt' = RtIdle
         ELSE
           /\ req' = [r EXCEPT !.kind = kind, !.err = v[2],
                               !.pc = CASE kind = "tx" -> "tx_receipt"
                                        [] kind = "tx_tron" -> "tron_tx"
                                        [] kind = "address" ->
                                             IF env.ENABLE_BALANCES THEN "addr_stats"
                                                                    ELSE "addr_finish",
                               !.detected_chain =
                                  IF kind = "address"
                                    THEN (IF chain = "polygon" THEN "polygon" ELSE "ethereum")
                                    ELSE "None"]
           /\ meta' = IF kind = "address"
                        THEN AddressMeta(DefaultMeta(input_id), input_id, chain)
                        ELSE DefaultMeta(input_id)
           /\ rt' = IF kind = "address" THEN RtIdle ELSE NewFrame
  /\ events' = <<>>
  /\ transfers' = <<>>
  /\ calls' = <<>>
  /\ rendered' = <<>>
  /\ UNCHANGED <<env, cls, cacheVars>>

(***************************************************************************)
(* TRON address: the early return (lines 146-173)                          *)
(***************************************************************************)
TronAccountDoc(hasBalance, balance, tokens, data) ==
  [kind |-> "dict", hasBalance |-> hasBalance, balance |-> balance,
   withPriceTokens |-> tokens, data |-> data]

TronAccountEntry(sun, txs) ==
  [malformed |-> FALSE, balance |-> sun, totalTransactionCount |-> txs]

\* what GET /api/account can answer: 10 TRX, 500 TRX and 600 TRX in SUN,
\* alone or with a data list; the TRX balance under withPriceTokens, alone or
\* next to "balance"; nothing
TronAccountHttp ==
  {[k |-> "exc"], [k |-> "status"], [k |-> "nonjson"],
   [k |-> "json", body |-> TronAccountDoc(TRUE, Num(10000000), <<>>, <<>>)],
   [k |-> "json", body |-> TronAccountDoc(TRUE, Num(10000000),
                                          <<[tokenAbbr |-> "TRX", balance |-> Num(12)]>>, <<>>)],
   [k |-> "json", body |-> TronAccountDoc(TRUE, Num(500000000), <<>>,
                                          <<TronAccountEntry(500000000, 5)>>)],
   [k |-> "json", body |-> TronAccountDoc(TRUE, Num(10000000), <<>>,
                                          <<TronAccountEntry(10000000, 3)>>)],
   [k |-> "json", body |-> TronAccountDoc(TRUE, Num(600000000), <<>>,
                                          <<TronAccountEntry(600000000, 0)>>)],
   [k |-> "json", body |-> TronAccountDoc(FALSE, None,
                                          <<[tokenAbbr |-> "TRX", balance |-> Num(12)]>>, <<>>)],
   [k |-> "json", body |-> TronAccountDoc(FALSE, None, <<>>,
                                          <<[malformed |-> TRUE, balance |-> 0,
                                             totalTransactionCount |-> 0]>>)]}

\* lines 154-156: acc = get_tron_account(input_text)
TronAddrAccount ==
  /\ req.pc = "tron_addr_account"
  /\ \E o \in TronAccountHttp :
       LET acc == get_tron_account(o)
       IN  /\ meta' = Put(meta, "from_balance_trx", acc.balance_trx)
           /\ calls' = Append(calls, Call("get_tron_account", 0, 1, HttpFailed(o), FALSE))
           /\ req' = [req EXCEPT !.pc = "tron_addr_risk", !.acc = acc]
  /\ UNCHANGED <<env, cls, rt, cacheVars, events, transfers, rendered>>

\* lines 158-173: the risk evaluation (made whatever ENABLE_RISK is), the
\* report and the response; an exception of evaluate escapes analyze here
TronAddrRisk ==
  /\ req.pc = "tron_addr_risk"
  /\ \E o \in TronAccountHttp, pdf \in BOOLEAN :
       IF RiskRaises(meta, o)
         THEN /\ req' = [req EXCEPT !.pc = "done", !.escaped = TRUE,
                                    !.risk_calls = @ + 1]
              /\ UNCHANGED <<meta, rendered>>
         ELSE LET m == WithRisk(evaluate(meta, transfers, o))
              IN  /\ meta' = m
                  /\ rendered' = Append(rendered,
                                        Render(Strip(req.input_id), m, events, transfers, pdf))
                  /\ req' = [req EXCEPT !.pc = "done", !.risk_calls = @ + 1,
                                        !.summary = "Address en TRON",
                                        !.files = IF pdf THEN 2 ELSE 1]
  /\ UNCHANGED <<env, cls, rt, cacheVars, events, transfers, calls>>

(***************************************************************************)
(* The end of a request                                                    *)
(***************************************************************************)
\* lines 369-384: the report is generated from input_id, meta, events and
\* transfers, and the response returned
Respond(rq, m, ev, tr, summary, pdf) ==
  /\ meta' = m
  /\ events' = ev
  /\ transfers' = tr
  /\ rendered' = Append(rendered, Render(rq.input_id, m, ev, tr, pdf))
  /\ req' = [rq EXCEPT !.pc = "done", !.summary = summary,
                       !.files = IF pdf THEN 2 ELSE 1]

\* lines 365-367 and 369-384: the exception is caught, logged and reported
\* in the summary; meta, events and transfers stay as they were
RespondError(rq, pdf) ==
  Respond(rq, meta, events, transfers, "Error durante el analisis", pdf)

(***************************************************************************)
(* Transaction on Ethereum / Polygon (lines 196-273)                       *)
(***************************************************************************)
Absent == <<"absent">>

Hex(c) == Prefix0x \o <<c>>

Topic(addr) == Prefix0x \o Rep("0", 24) \o SubSeq(addr, 3, Len(addr))

TransferLog(from, to, data) ==
  [topics |-> <<TRANSFER_SIG, Topic(from), Topic(to)>>, data |-> data, address |-> AddrB]

RcptOk ==
  [blockNumber |-> Prefix0x \o <<"1", "0">>, status |-> Hex("1"), from |-> AddrA,
   to |-> AddrB, gasUsed |-> Hex("2"), effectiveGasPrice |-> Hex("3"),
   logs |-> <<TransferLog(AddrAUpper, AddrB, Prefix0x \o <<"2", "a">>)>>]

RcptFailed ==
  [blockNumber |-> Prefix0x \o <<"1", "0">>, status |-> Hex("0"), from |-> AddrA,
   to |-> None, gasUsed |-> Hex("2"), effectiveGasPrice |-> None, logs |-> <<>>]

RcptPending ==
  [blockNumber |-> None, status |-> None, from |-> Absent, to |-> Absent,
   gasUsed |-> None, effectiveGasPrice |-> None, logs |-> <<>>]

ReceiptDoc(kind, rk, result) == [kind |-> kind, rk |-> rk, result |-> result]

\* what eth_getTransactionReceipt can answer
ReceiptHttp ==
  {[k |-> "exc"], [k |-> "status"], [k |-> "nonjson"],
   [k |-> "json", body |-> ReceiptDoc("list", "none", NoReceipt)],
   [k |-> "json", body |-> ReceiptDoc("dict", "none", NoReceipt)],
   [k |-> "json", body |-> ReceiptDoc("dict", "str", NoReceipt)],
   [k |-> "json", body |-> ReceiptDoc("dict", "dict", RcptOk)],
   [k |-> "json", body |-> ReceiptDoc("dict", "dict", RcptFailed)],
   [k |-> "json", body |-> ReceiptDoc("dict", "dict", RcptPending)]}

\* what eth_getBlockByNumber can answer
BlockHttp ==
  {[k |-> "exc"], [k |-> "status"], [k |-> "nonjson"],
   [k |-> "json", body |-> [kind |-> "dict", rk |-> "none", timestamp |-> None]],
   [k |-> "json", body |-> [kind |-> "dict", rk |-> "dict", timestamp |-> None]],
   [k |-> "json", body |-> [kind |-> "dict", rk |-> "dict", timestamp |-> Hex("5")]]}

\* what eth_getBalance / eth_getTransactionCount can answer
ValueHttp ==
  {[k |-> "exc"], [k |-> "nonjson"],
   [k |-> "json", body |-> [kind |-> "dict", result |-> None]],
   [k |-> "json", body |-> [kind |-> "dict", result |-> Hex("7")]]}

\* what the token balances lookup of the risk engine can answer
TokensDoc(items, malformed) == [items |-> items, malformed |-> malformed]

TokensHttp ==
  {[k |-> "exc"], [k |-> "status"],
   [k |-> "json", body |-> TokensDoc(<<>>, FALSE)],
   [k |-> "json", body |-> TokensDoc(<<"USDT">>, FALSE)],
   [k |-> "json", body |-> TokensDoc(<<"WETH">>, FALSE)],
   [k |-> "json", body |-> TokensDoc(<<"WETH", "USDC">>, FALSE)],
   [k |-> "json", body |-> TokensDoc(<<>>, TRUE)]}

\* the lookup evaluate makes for this Fact Record can answer
RiskHttp(m) ==
  IF RiskBranch(m) = "evm" THEN TokensHttp
  ELSE IF RiskBranch(m) = "tron" THEN TronAccountHttp
  ELSE {[k |-> "exc"]}

\* mutant: every status code other than 0x1 is a failure
StatusOf_Binary(code) == IF code = Hex("1") THEN "Success" ELSE "Failed"

\* line 203
StatusOf(code) ==
  IF code = Hex("1") THEN "Success" ELSE IF code = Hex("0") THEN "Failed" ELSE "Unknown"

\* hex_to_int_safe(...) or "pending"
BlockOf(h) ==
  IF hex_to_int_safe(h) = None \/ hex_to_int_safe(h)[2] = 0
    THEN <<"pending">> ELSE hex_to_int_safe(h)

\* lines 199-215: network, block, status, from, to, fee
ReceiptMeta(m, res, detected_chain) ==
  LET m1 == [m EXCEPT !["network"] = detected_chain,
                      !["block"] = BlockOf(res.blockNumber),
                      !["status"] = StatusOf(res.status),
                      !["from"] = IF res.from = Absent THEN @ ELSE res.from,
                      !["to"] = IF res.to = Absent THEN @ ELSE res.to]
      gas_used == hex_to_int_safe(res.gasUsed)
      eff_price == hex_to_int_safe(res.effectiveGasPrice)
  IN  IF gas_used # None /\ eff_price # None
        THEN Put(m1, "fee_wei", Num(gas_used[2] * eff_price[2]))
        ELSE m1

\* (x or "").lower()
LowerOrEmpty(x) == IF x = None THEN <<>> ELSE Lower(x)

\* mutant: the addresses are compared as they are written
FlowLabel_CaseSensitive(from, trs) ==
  LET out_count == Cardinality({i \in 1..Len(trs) : trs[i].from = from})
      in_count == Cardinality({i \in 1..Len(trs) : trs[i].to = from})
  IN  IF out_count > 0 /\ in_count = 0 THEN "saliente"
      ELSE IF in_count > 0 /\ out_count = 0 THEN "entrante"
      ELSE IF in_count > 0 \/ out_count > 0 THEN "mixto"
      ELSE "desconocido"

\* lines 229-239
FlowLabel(from, trs) ==
  LET src == LowerOrEmpty(from)
      out_count == Cardinality({i \in 1..Len(trs) : LowerOrEmpty(trs[i].from) = src})
      in_count == Cardinality({i \in 1..Len(trs) : LowerOrEmpty(trs[i].to) = src})
  IN  IF out_count > 0 /\ in_count = 0 THEN "saliente"
      ELSE IF in_count > 0 /\ out_count = 0 THEN "entrante"
      ELSE IF in_count > 0 \/ out_count > 0 THEN "mixto"
      ELSE "desconocido"

\* isinstance(a, str) and a.startswith("0x") and len(a) == 42
IsEvmAddress(a) == a # None /\ StartsWith(a, Prefix0x) /\ Len(a) = ADDRESS_LEN

\* the position after lines 225-239: the first balance lookup that is made
AfterFlowPc(m) ==
  IF env.ENABLE_BALANCES /\ IsEvmAddress(m["from"]) THEN "stats_from"
  ELSE IF env.ENABLE_BALANCES /\ IsEvmAddress(m["to"]) THEN "stats_to"
  ELSE "tx_finish"

\* lines 225-239: transfers and flow label
ParseAndLabel(rq, m, rcpt) ==
  LET trs == parse_erc20_transfers_from_receipt(rcpt)
      m1 == [m EXCEPT !["flow_label"] = FlowLabel(m["from"], trs)]
  IN  /\ transfers' = trs
      /\ meta' = m1
      /\ req' = [rq EXCEPT !.pc = AfterFlowPc(m1)]
      /\ UNCHANGED <<events, rendered>>

\* line 197 and lines 198-217: one attempt of with_retries(get_tx_receipt)
TxReceiptAttempt ==
  /\ req.pc = "tx_receipt"
  /\ rt.st = "loop"
  /\ \E oP \in ReceiptHttp, oE \in ReceiptHttp, pdf \in BOOLEAN :
       LET r == get_tx_receipt(req.chain, oP, oE)
           sent == TxReceiptRequests(req.chain, oP, oE)
           f == RetryIter(rt, [ok |-> ~r.raised, v |-> <<"get_tx_receipt", rt.i + 1>>])
       IN  /\ calls' = Append(calls,
                              Call("get_tx_receipt", 1, rt.i + 1,
                                   \A i \in 1..Len(sent) : HttpFailed(sent[i]), r.raised))
           /\ IF f.st = "loop" THEN
                /\ rt' = f
                /\ UNCHANGED <<req, meta, events, transfers, rendered>>
              ELSE IF f.st = "raised" THEN
                /\ rt' = f
                /\ RespondError(req, pdf)
              ELSE IF ~HasResultDict(r.val[1]) THEN
                /\ rt' = f
                /\ Respond(req, meta, events, transfers, "No se pudo obtener el recibo", pdf)
              ELSE
                LET rcpt == r.val[1]
                    m == ReceiptMeta(meta, rcpt.result, r.val[2])
                    rq == [req EXCEPT !.rcpt = rcpt, !.detected_chain = r.val[2]]
                IN  IF TruthyStr(rcpt.result.blockNumber)
                      THEN /\ rt' = NewFrame
                           /\ meta' = m
                           /\ req' = [rq EXCEPT !.pc = "block_info"]
                           /\ UNCHANGED <<events, transfers, rendered>>
                      ELSE /\ rt' = f
                           /\ ParseAndLabel(rq, m, rcpt)
  /\ UNCHANGED <<env, cls, cacheVars>>

\* lines 218-223
TimestampMeta(m, blk) ==
  IF blk.kind = "dict" /\ blk.rk = "dict"
       /\ hex_to_int_safe(blk.timestamp) # None /\ hex_to_int_safe(blk.timestamp)[2] # 0
    THEN [m EXCEPT !["timestamp"] = TimeOf(hex_to_int_safe(blk.timestamp)[2])]
    ELSE m

\* lines 218-239: one attempt of with_retries(get_block_info)
BlockInfoAttempt ==
  /\ req.pc = "block_info"
  /\ rt.st = "loop"
  /\ \E o \in BlockHttp, pdf \in BOOLEAN :
       LET r == get_block_info(o)
           f == RetryIter(rt, [ok |-> ~r.raised, v |-> <<"get_block_info", rt.i + 1>>])
       IN  /\ calls' = Append(calls, Call("get_block_info", 2, rt.i + 1, HttpFailed(o), r.raised))
           /\ rt' = f
           /\ IF f.st = "loop" THEN UNCHANGED <<req, meta, events, transfers, rendered>>
              ELSE IF f.st = "raised" THEN RespondError(req, pdf)
              ELSE ParseAndLabel(req, TimestampMeta(meta, r.val), req.rcpt)
  /\ UNCHANGED <<env, cls, cacheVars>>

\* one read-check of cache_ttl._wrap (lines 101-106) as the request made it:
\* attempt is the iteration of the with_retries loop that was running when
\* it was made, 0 when none was
Check(key, attempt, hit) == [key |-> key, attempt |-> attempt, hit |-> hit]

\* mutant: a result whose fields are all null is returned but not stored
Cached_SkipDegraded(key, computed) ==
  LET hit == CacheGet(cache, key)
  IN  IF CacheFresh(hit, clock, env.CACHE_TTL_S)
        THEN <<hit.val, cache, FALSE>>
        ELSE IF \A f \in DOMAIN computed : computed[f] = None
          THEN <<computed, cache, TRUE>>
          ELSE <<computed, CachePut(cache, key, clock, computed), TRUE>>

\* a call of a function wrapped by cache_ttl() and with_retries, made by the
\* one thread of the request: <<result, cache after the call, looked up>>
Cached(key, computed) ==
  LET hit == CacheGet(cache, key)
  IN  IF CacheFresh(hit, clock, env.CACHE_TTL_S)
        THEN <<hit.val, cache, FALSE>>
        ELSE <<computed, CachePut(cache, key, clock, computed), TRUE>>

\* lines 243-248 (which = "from") and 249-252 (which = "to")
TxStats(which) ==
  /\ req.pc = "stats_" \o which
  /\ \E oB \in ValueHttp, oN \in ValueHttp :
       LET f == NewFrame
           key == <<"_stats", meta[which], req.detected_chain>>
           c == Cached(key, get_eth_address_stats(oB, oN))
       IN  /\ cache' = c[2]
           /\ rt' = RetryIter(f, [ok |-> TRUE, v |-> <<"_stats", f.i + 1>>])
           /\ req' = [req EXCEPT !.pc = IF which = "from" /\ IsEvmAddress(meta["to"])
                                          THEN "stats_to" ELSE "tx_finish",
                                 !.checks = Append(@, Check(key, f.i + 1, ~c[3]))]
           /\ meta' = Put(Put(meta, which \o "_balance_wei", c[1].balance_wei),
                          which \o "_nonce", c[1].nonce)
           /\ calls' = IF c[3]
                         THEN Append(calls, Call("get_eth_address_stats",
                                                 IF which = "from" THEN 3 ELSE 4, 1,
                                                 HttpFailed(oB) /\ HttpFailed(oN), FALSE))
                         ELSE calls
  /\ UNCHANGED <<env, cls, clock, lock, th, ninv, events, transfers, rendered>>

TxEvent(m, input_id) ==
  [ts |-> m["timestamp"], type |-> "tx_confirmed", tx_hash |-> input_id,
   from |-> m["from"], to |-> m["to"]]

\* lines 254-271 and 369-384: the event, the risk evaluation, the report
TxFinish ==
  /\ req.pc = "tx_finish"
  /\ LET ev == Append(events, TxEvent(meta, req.input_id))
     IN  IF env.ENABLE_RISK
           THEN \E o \in RiskHttp(meta), pdf \in BOOLEAN :
                  LET rq == [req EXCEPT !.risk_calls = @ + 1]
                  IN  IF RiskRaises(meta, o)
                        THEN Respond(rq, meta, ev, transfers, "Error durante el analisis", pdf)
                        ELSE Respond(rq, WithRisk(evaluate(meta, transfers, o)), ev,
                                     transfers, "Tx", pdf)
           ELSE \E pdf \in BOOLEAN : Respond(req, meta, ev, transfers, "Tx", pdf)
  /\ UNCHANGED <<env, cls, rt, cacheVars, calls>>

(***************************************************************************)
(* Transaction on TRON (lines 277-328)                                     *)
(***************************************************************************)
TronTxDoc(hash, block, timestamp, owner, to, confirmed, net_fee) ==
  [kind |-> "dict", hash |-> hash, block |-> block, timestamp |-> timestamp,
   ownerAddress |-> owner, toAddress |-> to, confirmed |-> confirmed,
   net_fee |-> net_fee]

\* what GET /api/transaction-info can answer: nothing, a document without a
\* hash, a transfer between two accounts confirmed or not, a sparse document,
\* a confirmed transaction without a destination
TronTxHttp ==
  {[k |-> "exc"], [k |-> "status"], [k |-> "nonjson"],
   [k |-> "json", body |-> TronTxDoc(None, None, None, None, None, FALSE, Num(0))],
   [k |-> "json", body |-> TronTxDoc(TronTxA, Num(7), Num(5000), TronA, TronB, TRUE, Num(3))],
   [k |-> "json", body |-> TronTxDoc(TronTxA, Num(7), Num(5000), TronA, TronB, FALSE, Num(3))],
   [k |-> "json", body |-> TronTxDoc(TronTxA, Num(7), Num(5000), TronA, <<>>, TRUE, Num(3))],
   [k |-> "json", body |-> TronTxDoc(TronTxA, None, None, TronA, None, FALSE, Num(0))]}

\* isinstance(a, str) and a.startswith("T")
IsTronText(a) == a # None /\ StartsWith(a, <<"T">>)

\* mutant: the flow is outgoing as soon as the sender is known
TronTxMeta_FromOnly(m, tx) ==
  LET m1 == [m EXCEPT !["network"] = "tron",
                      !["block"] = tx.block,
                      !["timestamp"] = IF tx.timestamp = None THEN @
                                       ELSE TimeOf(tx.timestamp[2] \div 1000),
                      !["status"] = IF tx.confirmed THEN "Success" ELSE "Pending/Unknown",
                      !["from"] = tx.from,
                      !["to"] = tx.to,
                      !["flow_label"] = IF TruthyStr(tx.from)
                                          THEN "saliente" ELSE "desconocido"]
  IN  IF tx.fee # None THEN Put(m1, "fee_trx", Quot(tx.fee[2], SUN_PER_TRX)) ELSE m1

\* lines 283-297
TronTxMeta(m, tx) ==
  LET m1 == [m EXCEPT !["network"] = "tron",
                      !["block"] = tx.block,
                      !["timestamp"] = IF tx.timestamp = None THEN @
                                       ELSE TimeOf(tx.timestamp[2] \div 1000),
                      !["status"] = IF tx.confirmed THEN "Success" ELSE "Pending/Unknown",
                      !["from"] = tx.from,
                      !["to"] = tx.to,
                      !["flow_label"] = IF TruthyStr(tx.from) /\ TruthyStr(tx.to)
                                          THEN "saliente" ELSE "desconocido"]
  IN  IF tx.fee # None THEN Put(m1, "fee_trx", Quot(tx.fee[2], SUN_PER_TRX)) ELSE m1

\* the position after line 297: the first account lookup that is made
AfterTronTxPc(m) ==
  IF env.ENABLE_BALANCES /\ IsTronText(m["from"]) THEN "tacc_from"
  ELSE IF env.ENABLE_BALANCES /\ IsTronText(m["to"]) THEN "tacc_to"
  ELSE "tron_finish"

\* lines 278-297 and 327-328: with_retries(get_tron_tx)(input_id); get_tron_tx
\* returns on every outcome of its request, so the loop ends at once
TronTxAttempt ==
  /\ req.pc = "tron_tx"
  /\ rt.st = "loop"
  /\ IF ~env.ENABLE_TRON
       THEN /\ \E pdf \in BOOLEAN :
                 Respond(req, meta, events, transfers, "TRON deshabilitado", pdf)
            /\ UNCHANGED <<rt, calls>>
       ELSE \E o \in TronTxHttp, pdf \in BOOLEAN :
              LET tx == get_tron_tx(o)
              IN  /\ rt' = RetryIter(rt, [ok |-> TRUE, v |-> <<"get_tron_tx", rt.i + 1>>])
                  /\ calls' = Append(calls, Call("get_tron_tx", 1, rt.i + 1,
                                                 HttpFailed(o), FALSE))
                  /\ IF tx.found
                       THEN LET m == TronTxMeta(meta, tx)
                            IN  /\ meta' = m
                                /\ req' = [req EXCEPT !.pc = AfterTronTxPc(m), !.tx = tx]
                                /\ UNCHANGED <<events, transfers, rendered>>
                       ELSE Respond(req, meta, events, transfers,
                                    "No se encontro la transaccion", pdf)
  /\ UNCHANGED <<env, cls, cacheVars>>

\* lines 301-305 (which = "from") and 306-308 (which = "to"):
\* with_retries(_tacc)(meta[which]), _tacc being get_tron_account under cache_ttl()
TronAcc(which) ==
  /\ req.pc = "tacc_" \o which
  /\ \E o \in TronAccountHttp :
       LET f == NewFrame
           key == <<"_tacc", meta[which]>>
           c == Cached(key, get_tron_account(o))
       IN  /\ cache' = c[2]
           /\ rt' = RetryIter(f, [ok |-> TRUE, v |-> <<"_tacc", f.i + 1>>])
           /\ req' = [req EXCEPT !.pc = IF which = "from" /\ IsTronText(meta["to"])
                                          THEN "tacc_to" ELSE "tron_finish",
                                 !.checks = Append(@, Check(key, f.i + 1, ~c[3]))]
           /\ meta' = Put(meta, which \o "_balance_trx", c[1].balance_trx)
           /\ calls' = IF c[3]
                         THEN Append(calls, Call("get_tron_account",
                                                 IF which = "from" THEN 3 ELSE 4, 1,
                                                 HttpFailed(o), FALSE))
                         ELSE calls
  /\ UNCHANGED <<env, cls, clock, lock, th, ninv, events, transfers, rendered>>

\* lines 310-326 and 369-384: the event, the risk evaluation, the report
TronFinish ==
  /\ req.pc = "tron_finish"
  /\ LET ev == Append(events, TxEvent(meta, req.input_id))
     IN  IF env.ENABLE_RISK
           THEN \E o \in RiskHttp(meta), pdf \in BOOLEAN :
                  LET rq == [req EXCEPT !.risk_calls = @ + 1]
                  IN  IF RiskRaises(meta, o)
                        THEN Respond(rq, meta, ev, <<>>, "Error durante el analisis", pdf)
                        ELSE Respond(rq, WithRisk(evaluate(meta, <<>>, o)), ev, <<>>,
                                     "Tx en TRON", pdf)
           ELSE \E pdf \in BOOLEAN : Respond(req, meta, ev, <<>>, "Tx en TRON", pdf)
  /\ UNCHANGED <<env, cls, rt, cacheVars, calls>>

(***************************************************************************)
(* Address on Ethereum / Polygon (lines 332-362)                           *)
(***************************************************************************)
\* lines 341-346: with_retries(_stats)(input_id, detected_chain)
AddrStats ==
  /\ req.pc = "addr_stats"
  /\ \E oB \in ValueHttp, oN \in ValueHttp :
       LET f == NewFrame
           key == <<"_stats", req.input_id, req.detected_chain>>
           c == Cached(key, get_eth_address_stats(oB, oN))
       IN  /\ cache' = c[2]
           /\ rt' = RetryIter(f, [ok |-> TRUE, v |-> <<"_stats", f.i + 1>>])
           /\ req' = [req EXCEPT !.pc = "addr_finish",
                                 !.checks = Append(@, Check(key, f.i + 1, ~c[3]))]
           /\ meta' = Put(Put(meta, "from_balance_wei", c[1].balance_wei),
                          "from_nonce", c[1].nonce)
           /\ calls' = IF c[3]
                         THEN Append(calls, Call("get_eth_address_stats", 3, 1,
                                                 HttpFailed(oB) /\ HttpFailed(oN), FALSE))
                         ELSE calls
  /\ UNCHANGED <<env, cls, clock, lock, th, ninv, events, transfers, rendered>>

\* lines 348-352
AddrEvent(m, input_id) ==
  [ts |-> m["timestamp"], type |-> "address_scan", tx_hash |-> <<>>,
   from |-> input_id, to |-> <<>>]

\* lines 348-362 and 369-384: the event, the risk evaluation, the report
AddrFinish ==
  /\ req.pc = "addr_finish"
  /\ LET ev == Append(events, AddrEvent(meta, req.input_id))
     IN  IF env.ENABLE_RISK
           THEN \E o \in RiskHttp(meta), pdf \in BOOLEAN :
                  LET rq == [req EXCEPT !.risk_calls = @ + 1]
                  IN  IF RiskRaises(meta, o)
                        THEN Respond(rq, meta, ev, <<>>, "Error durante el analisis", pdf)
                        ELSE Respond(rq, WithRisk(evaluate(meta, <<>>, o)), ev, <<>>,
                                     "Address", pdf)
           ELSE \E pdf \in BOOLEAN : Respond(req, meta, ev, <<>>, "Address", pdf)
  /\ UNCHANGED <<env, cls, rt, cacheVars, calls>>

ReqAtRest ==
  /\ req = ReqIdle
  /\ meta = <<>>
  /\ events = <<>>
  /\ transfers = <<>>
  /\ calls = <<>>
  /\ rendered = <<>>

(***************************************************************************)
(* Specifications                                                          *)
(***************************************************************************)
EnvDefault ==
  [ENABLE_TRON |-> TRUE, ENABLE_BALANCES |-> TRUE, ENABLE_RISK |-> TRUE,
   RETRY_ATTEMPTS |-> 2, CACHE_TTL_S |-> 90]

InitCache ==
  /\ env \in {[EnvDefault EXCEPT !.CACHE_TTL_S = n] : n \in 0..MaxTtl}
  /\ cls = ClsIdle
  /\ rt = RtIdle
  /\ CacheIdle
  /\ ReqAtRest

NextCache ==
  \/ \E t \in Threads :
       CacheCall(t) \/ CacheAcquire(t) \/ CacheRead(t) \/ CacheCompute(t) \/ CacheWrite(t)
  \/ Tick

SpecCache == InitCache /\ [][NextCache]_vars

\* a thread inside `with _cache_lock:` is scheduled and leaves the block: the
\* statements of both blocks (lines 104-106 and 109) do not wait for anything
InitCacheFair ==
  /\ env = [EnvDefault EXCEPT !.CACHE_TTL_S = 1]
  /\ cls = ClsIdle
  /\ rt = RtIdle
  /\ CacheIdle
  /\ ReqAtRest

SpecCacheFair ==
  /\ InitCacheFair
  /\ [][NextCache]_vars
  /\ \A t \in Threads : WF_vars(CacheRead(t)) /\ WF_vars(CacheWrite(t))

InitClassify ==
  /\ env \in {[EnvDefault EXCEPT !.ENABLE_TRON = b] : b \in BOOLEAN}
  /\ CacheIdle
  /\ ReqAtRest
  /\ cls \in {[ClsIdle EXCEPT !.pc = "in", !.raw = s] : s \in ClsInputs}
  /\ rt = RtIdle

NextClassify == Classify

SpecClassify == InitClassify /\ [][NextClassify]_vars

InitRetry ==
  /\ env = EnvDefault
  /\ CacheIdle
  /\ ReqAtRest
  /\ cls = ClsIdle
  /\ rt \in {[RtIdle EXCEPT !.st = "loop", !.attempts = a, !.delay = d] :
               a \in 0..MaxAttempts, d \in 1..MaxDelay}

NextRetry == RetryCall

SpecRetry == InitRetry /\ [][NextRetry]_vars

\* the configurations a deployment can run with: each flag on or off
Envs ==
  {[EnvDefault EXCEPT !.ENABLE_TRON = t, !.ENABLE_BALANCES = b, !.ENABLE_RISK = r,
                      !.CACHE_TTL_S = 1] :
     t \in BOOLEAN, b \in BOOLEAN, r \in BOOLEAN}

Init ==
  /\ env \in Envs
  /\ cls = ClsIdle
  /\ rt = RtIdle
  /\ CacheIdle
  /\ ReqAtRest

Next ==
  \/ \E input_id \in AnalyzeInputs, chain \in Chains : Submit(input_id, chain)
  \/ TronAddrAccount
  \/ TronAddrRisk
  \/ TxReceiptAttempt
  \/ BlockInfoAttempt
  \/ TxStats("from")
  \/ TxStats("to")
  \/ TxFinish
  \/ TronTxAttempt
  \/ TronAcc("from")
  \/ TronAcc("to")
  \/ TronFinish
  \/ AddrStats
  \/ AddrFinish

Spec == Init /\ [][Next]_vars

(***************************************************************************)
(* evaluate on its own: the Fact Record and the transfer list are drawn    *)
(* from the values analyze can put into them, and from records that carry  *)
(* risk_reasons already; one step calls evaluate and stores its result as  *)
(* analyze does.                                                           *)
(***************************************************************************)
RiskRecordsBase ==
  {[network |-> n, from |-> f, to |-> TextNA, tx_hash |-> TxA, status |-> st,
    flow_label |-> fl] :
     n \in {"ethereum", "polygon", "tron", "N/A"},
     f \in {AddrA, TronA, TextNA, None},
     st \in {"Success", "Failed", "N/A"},
     fl \in {"saliente", "entrante", "N/D"}}

RiskRecords ==
  RiskRecordsBase
    \cup {Put(m, "risk_reasons", <<Reason("ponzi", 0)>>) : m \in RiskRecordsBase}
    \cup {[network |-> "N/A", tx_hash |-> <<>>]}

RiskTransfers ==
  {<<>>, <<[from |-> AddrA, to |-> AddrB, value_raw |-> 42, contract |-> AddrB]>>}

\* risk = risk_evaluate(meta, transfers), and the three assignments to meta;
\* calls keeps the branch evaluate took and what its lookup was answered
RiskEvaluate ==
  /\ req.pc = "risk"
  /\ \E o \in RiskHttp(meta) :
       IF RiskRaises(meta, o)
         THEN /\ req' = [req EXCEPT !.pc = "done", !.escaped = TRUE, !.risk_calls = @ + 1]
              /\ UNCHANGED <<meta, calls>>
         ELSE /\ req' = [req EXCEPT !.pc = "done", !.risk_calls = @ + 1]
              /\ meta' = WithRisk(evaluate(meta, transfers, o))
              /\ calls' = <<[branch |-> RiskBranch(meta), o |-> o]>>
  /\ UNCHANGED <<env, cls, rt, cacheVars, events, transfers, rendered>>

InitRisk ==
  /\ env = EnvDefault
  /\ cls = ClsIdle
  /\ rt = RtIdle
  /\ CacheIdle
  /\ req = [ReqIdle EXCEPT !.pc = "risk"]
  /\ meta \in RiskRecords
  /\ transfers \in RiskTransfers
  /\ events = <<>>
  /\ calls = <<>>
  /\ rendered = <<>>

NextRisk == RiskEvaluate

SpecRisk == InitRisk /\ [][NextRisk]_vars

(***************************************************************************)
(* parse_erc20_transfers_from_receipt on its own: the receipt carries up   *)
(* to MaxLogs logs, each a Transfer log (with the signature in lower or in *)
(* upper case), a log of another event, a log without topics, or a         *)
(* Transfer log that lacks a topic or whose data is no hex number.         *)
(***************************************************************************)
UpperSig == [i \in 1..Len(TRANSFER_SIG) |-> IF TRANSFER_SIG[i] = "d" THEN "D" ELSE TRANSFER_SIG[i]]

ParseLogKinds ==
  {TransferLog(AddrAUpper, AddrB, Prefix0x \o <<"2", "a">>),
   [topics |-> <<UpperSig, Topic(AddrB), Topic(AddrA)>>, data |-> Hex("7"), address |-> AddrA],
   [topics |-> <<Topic(AddrA), Topic(AddrA), Topic(AddrB)>>, data |-> Hex("1"), address |-> AddrB],
   [topics |-> <<>>, data |-> Hex("1"), address |-> AddrB],
   [topics |-> <<TRANSFER_SIG, Topic(AddrA)>>, data |-> Hex("1"), address |-> AddrB],
   [topics |-> <<TRANSFER_SIG, Topic(AddrA), Topic(AddrB)>>, data |-> Prefix0x, address |-> AddrB]}

ParseReceipts ==
  {ReceiptDoc("dict", "dict", [RcptOk EXCEPT !.logs = l]) :
     l \in UNION {[1..n -> ParseLogKinds] : n \in 0..MaxLogs}}

\* transfers = parse_erc20_transfers_from_receipt(rcpt)
ParseTransfers ==
  /\ req.pc = "parse"
  /\ transfers' = parse_erc20_transfers_from_receipt(req.rcpt)
  /\ req' = [req EXCEPT !.pc = "done"]
  /\ UNCHANGED <<env, cls, rt, cacheVars, meta, events, calls, rendered>>

InitParse ==
  /\ env = EnvDefault
  /\ cls = ClsIdle
  /\ rt = RtIdle
  /\ CacheIdle
  /\ req \in {[ReqIdle EXCEPT !.pc = "parse", !.rcpt = r] : r \in ParseReceipts}
  /\ meta = <<>>
  /\ transfers = <<>>
  /\ events = <<>>
  /\ calls = <<>>
  /\ rendered = <<>>

NextParse == ParseTransfers

SpecParse == InitParse /\ [][NextParse]_vars

(***************************************************************************)
(* The lookup adapters on their own: get_tx_receipt under each chain hint, *)
(* get_eth_address_stats and get_tron_account, each answered by every      *)
(* outcome of its HTTP requests. calls keeps the requests that were sent.  *)
(***************************************************************************)
\* the chains get_tx_receipt probes, in the order it probes them
TxReceiptChains(chain) ==
  IF chain \in {"auto", "polygon"} THEN <<"polygon", "ethereum">> ELSE <<"ethereum">>

\* rcpt, detected_chain = get_tx_receipt(txhash, chain)
CallTxReceipt ==
  /\ req.pc = "adapter"
  /\ \E oP \in ReceiptHttp, oE \in ReceiptHttp :
       LET r == get_tx_receipt(req.chain, oP, oE)
           sent == TxReceiptRequests(req.chain, oP, oE)
       IN  /\ calls' = [i \in 1..Len(sent) |->
                          [chain |-> TxReceiptChains(req.chain)[i], o |-> sent[i]]]
           /\ req' = IF r.raised
                       THEN [req EXCEPT !.pc = "receipt_done", !.escaped = TRUE]
                       ELSE [req EXCEPT !.pc = "receipt_done", !.rcpt = r.val[1],
                                        !.detected_chain = r.val[2]]
  /\ UNCHANGED <<env, cls, rt, cacheVars, meta, events, transfers, rendered>>

\* what eth_getBalance / eth_getTransactionCount can answer, in full
StatsHttp ==
  ValueHttp \cup
  {[k |-> "status"],
   [k |-> "json", body |-> [kind |-> "list", result |-> None]],
   [k |-> "json", body |-> [kind |-> "dict", result |-> Prefix0x \o <<"1", "a">>]],
   [k |-> "json", body |-> [kind |-> "dict", result |-> Prefix0x \o <<"g">>]]}

\* s = get_eth_address_stats(address, chain)
CallAddressStats ==
  /\ req.pc = "adapter"
  /\ \E oB \in StatsHttp, oN \in StatsHttp :
       /\ calls' = <<[chain |-> req.chain, o |-> oB], [chain |-> req.chain, o |-> oN]>>
       /\ meta' = get_eth_address_stats(oB, oN)
       /\ req' = [req EXCEPT !.pc = "stats_done"]
  /\ UNCHANGED <<env, cls, rt, cacheVars, events, transfers, rendered>>

\* acc = get_tron_account(address)
CallTronAccount ==
  /\ req.pc = "adapter"
  /\ \E o \in TronAccountHttp :
       /\ calls' = <<[chain |-> "tron", o |-> o]>>
       /\ req' = [req EXCEPT !.pc = "account_done", !.acc = get_tron_account(o)]
  /\ UNCHANGED <<env, cls, rt, cacheVars, meta, events, transfers, rendered>>

InitAdapters ==
  /\ env = EnvDefault
  /\ cls = ClsIdle
  /\ rt = RtIdle
  /\ CacheIdle
  /\ req \in {[ReqIdle EXCEPT !.pc = "adapter", !.chain = c] : c \in Chains}
  /\ meta = <<>>
  /\ transfers = <<>>
  /\ events = <<>>
  /\ calls = <<>>
  /\ rendered = <<>>

NextAdapters == CallTxReceipt \/ CallAddressStats \/ CallTronAccount

SpecAdapters == InitAdapters /\ [][NextAdapters]_vars

(***************************************************************************)
(* Lines 199-239 of analyze on their own: the Fact Record of a transaction *)
(* from a receipt without a block number (so that no block is looked up),  *)
(* with every status code, every sender and up to MaxFlowLogs Transfer     *)
(* logs between two accounts.                                              *)
(***************************************************************************)
FlowLogs ==
  {TransferLog(a, b, Hex("1")) : a \in {AddrA, AddrB}, b \in {AddrA, AddrB}}

FlowReceipts ==
  {ReceiptDoc("dict", "dict",
              [RcptPending EXCEPT !.status = st, !.from = f, !.to = AddrB, !.logs = l]) :
     st \in {Hex("1"), Hex("0"), Hex("2"), Prefix0x \o <<"0", "1">>, None},
     f \in {AddrA, AddrAUpper, None, Absent},
     l \in UNION {[1..n -> FlowLogs] : n \in 0..MaxFlowLogs}}

\* lines 199-215 and 225-239
TxMeta ==
  /\ req.pc = "tx_meta"
  /\ ParseAndLabel(req, ReceiptMeta(meta, req.rcpt.result, req.detected_chain), req.rcpt)
  /\ UNCHANGED <<env, cls, rt, cacheVars, calls>>

InitTxMeta ==
  /\ env = EnvDefault
  /\ cls = ClsIdle
  /\ rt = RtIdle
  /\ CacheIdle
  /\ req \in {[ReqIdle EXCEPT !.pc = "tx_meta", !.input_id = TxA, !.kind = "tx",
                              !.detected_chain = "ethereum", !.rcpt = r] :
                r \in FlowReceipts}
  /\ meta = DefaultMeta(TxA)
  /\ transfers = <<>>
  /\ events = <<>>
  /\ calls = <<>>
  /\ rendered = <<>>

NextTxMeta == TxMeta

SpecTxMeta == InitTxMeta /\ [][NextTxMeta]_vars

(***************************************************************************)
(* generate_docx_and_maybe_pdf on its own: up to MaxReports reports, each  *)
(* for one of the identifiers analyze hands to it, written one after the   *)
(* other into the outputs directory.                                       *)
(***************************************************************************)
ReportIdentifiers == {TxA, <<" ">> \o TxA, TronTxA, AddrA, AddrB, TronA, TronB}

\* files = generate_docx_and_maybe_pdf(input_id, meta, events, transfers)
Generate ==
  /\ Len(rendered) < MaxReports
  /\ \E identifier \in ReportIdentifiers, pdf \in BOOLEAN :
       rendered' = Append(rendered,
                          Render(identifier, DefaultMeta(identifier), <<>>, <<>>, pdf))
  /\ UNCHANGED <<env, cls, rt, cacheVars, req, meta, events, transfers, calls>>

InitReport ==
  /\ env = EnvDefault
  /\ cls = ClsIdle
  /\ rt = RtIdle
  /\ CacheIdle
  /\ ReqAtRest

NextReport == Generate

SpecReport == InitReport /\ [][NextReport]_vars

(***************************************************************************)
(* The two lookups analyze wraps in cache_ttl() and with_retries, _stats   *)
(* and _tacc, called up to MaxLookups times by requests that follow one    *)
(* another while time passes. calls keeps, for every call, its key, its    *)
(* time, whether the adapter was invoked, what the call returned and       *)
(* whether the external source was answering at that time.                 *)
(***************************************************************************)
Lookup(key, now, invoked, result, up) ==
  [key |-> key, now |-> now, invoked |-> invoked, result |-> result, up |-> up]

\* main.py 341-344: s = with_retries(_stats)(input_id, detected_chain)
LookupStats ==
  /\ Len(calls) < MaxLookups
  /\ \E oB \in ValueHttp, oN \in ValueHttp :
       LET key == <<"_stats", AddrA, "ethereum">>
           c == Cached(key, get_eth_address_stats(oB, oN))
       IN  /\ cache' = c[2]
           /\ rt' = RetryIter(NewFrame, [ok |-> TRUE, v |-> <<"_stats", 1>>])
           /\ calls' = Append(calls, Lookup(key, clock, c[3], c[1],
                                            oB.k = "json" /\ oN.k = "json"))
  /\ UNCHANGED <<env, cls, clock, lock, th, ninv, req, meta, events, transfers, rendered>>

\* main.py 301-305: a_from = with_retries(_tacc)(meta["from"])
LookupTacc ==
  /\ Len(calls) < MaxLookups
  /\ \E o \in TronAccountHttp :
       LET key == <<"_tacc", TronA>>
           c == Cached(key, get_tron_account(o))
       IN  /\ cache' = c[2]
           /\ rt' = RetryIter(NewFrame, [ok |-> TRUE, v |-> <<"_tacc", 1>>])
           /\ calls' = Append(calls, Lookup(key, clock, c[3], c[1], o.k = "json"))
  /\ UNCHANGED <<env, cls, clock, lock, th, ninv, req, meta, events, transfers, rendered>>

InitLookups ==
  /\ env \in {[EnvDefault EXCEPT !.CACHE_TTL_S = n] : n \in 1..MaxTtl}
  /\ cls = ClsIdle
  /\ rt = RtIdle
  /\ CacheIdle
  /\ ReqAtRest

NextLookups == LookupStats \/ LookupTacc \/ Tick

SpecLookups == InitLookups /\ [][NextLookups]_vars

(***************************************************************************)
(* Claims                                                                  *)
(***************************************************************************)
AllFail(h, k) == \A j \in 1..k : ~h[j].ok

\* C1: with attempts >= 1, with_retries returns fn's value as soon as fn
\* succeeds, after k failures and k+1 invocations with k < attempts, and
\* never earlier or later; when fn fails on every call it raises the
\* exception of the last attempt after exactly `attempts` invocations.
C1_RetryOutcome ==
  LET n == Len(rt.hist)
  IN  (rt.st # "idle" /\ rt.attempts >= 1) =>
        /\ rt.st = "returned" =>
             /\ n >= 1 /\ n <= rt.attempts
             /\ AllFail(rt.hist, n - 1) /\ rt.hist[n].ok
             /\ rt.ret = rt.hist[n].v
        /\ rt.st = "raised" =>
             /\ n = rt.attempts
             /\ AllFail(rt.hist, n)
             /\ rt.exc = rt.hist[n].v
        /\ rt.st = "loop" => (n < rt.attempts /\ AllFail(rt.hist, n))

\* fn failed twice and then succeeded: the third invocation's value came back
C1_Witness ==
  /\ rt.st = "returned"
  /\ rt.attempts >= 3
  /\ Len(rt.hist) = 3
  /\ rt.ret = rt.hist[3].v

Is0xHex(s, n) ==
  /\ Len(s) = n + 2
  /\ s[1] = "0" /\ s[2] = "x"
  /\ \A i \in 3..(n + 2) : s[i] \in HexChars

\* C9: "0x" + 64 hex characters is classified tx (the EVM transaction kind)
\* and "0x" + 40 hex characters is classified address (the EVM address
\* kind), whether or not TRON is enabled.
C9_EvmPatterns ==
  cls.pc = "out" =>
    /\ Is0xHex(cls.raw, 64) => (cls.kind = "tx" /\ cls.reason = "None")
    /\ Is0xHex(cls.raw, 40) => (cls.kind = "address" /\ cls.reason = "None")

C9_Witness ==
  /\ cls.pc = "out"
  /\ ~env.ENABLE_TRON
  /\ Is0xHex(cls.raw, 64)
  /\ cls.kind = "tx"

\* the entry a call found at its read-check was within ttl
FoundFresh(f) == f.hit.some /\ f.now - f.hit.ts < env.CACHE_TTL_S

\* C2: a call that finds, at its read-check, an entry for its key with
\* now - inserted_at < ttl returns the stored value and does not invoke the
\* wrapped function; a call that finds the entry with now - inserted_at >= ttl
\* (or finds none) invokes the wrapped function once, and on its return the
\* entry of the key becomes (now, new value).
C2_CacheTtl ==
  /\ [](\A t \in Threads :
          LET f == th[t]
          IN  /\ f.pc \in {"compute", "write_lock", "write"} => ~FoundFresh(f)
              /\ f.pc = "done" =>
                   IF FoundFresh(f)
                     THEN f.inv = 0 /\ f.out = [k |-> "ret", v |-> f.hit.val]
                     ELSE f.inv = 1 /\ f.out.k \in {"ret", "exc"}
                          /\ (f.out.k = "ret" => f.out.v = f.res /\ f.res # f.hit.val))
  /\ [][\A t \in Threads :
          /\ (th[t].pc = "read" /\ th'[t].pc # "read") =>
               th'[t].hit = CacheGet(cache, th[t].key)
          /\ (th[t].pc = "write" /\ th'[t].pc = "done") =>
               CacheGet(cache', th[t].key) = Entry(th[t].now, th[t].res)]_vars

\* one call returned the stored value of a key within ttl, and another call
\* found the entry of its key expired, recomputed and stored the new value
C2_Witness ==
  \E t, u \in Threads :
    /\ t # u
    /\ th[t].pc = "done" /\ FoundFresh(th[t]) /\ th[t].inv = 0
    /\ th[t].out = [k |-> "ret", v |-> th[t].hit.val]
    /\ th[u].pc = "done" /\ th[u].hit.some /\ ~FoundFresh(th[u]) /\ th[u].inv = 1
    /\ th[u].out.k = "ret"
    /\ CacheGet(cache, th[u].key) = Entry(th[u].now, th[u].res)
    /\ th[u].hit.val # th[u].res


\* an invocation of a lookup adapter made through with_retries
Wrapped(c) == c.wr > 0

\* C3: a lookup adapter whose HTTP requests fail with a network error or an
\* error status returns to its caller; it never raises
C3_AdaptersNeverRaise ==
  \A i \in 1..Len(calls) : calls[i].failed => ~calls[i].raised

\* C4: when the request has been answered, every invocation made through
\* with_retries whose HTTP requests failed before the last configured attempt
\* was followed by a further attempt of the same adapter at the same call site
C4_RetriedUntilExhausted ==
  req.pc = "done" =>
    \A i \in 1..Len(calls) :
      (Wrapped(calls[i]) /\ calls[i].failed
         /\ calls[i].attempt < Max(1, env.RETRY_ATTEMPTS)) =>
        /\ i < Len(calls)
        /\ calls[i + 1].fn = calls[i].fn
        /\ calls[i + 1].wr = calls[i].wr
        /\ calls[i + 1].attempt = calls[i].attempt + 1

HasReason(m, id) ==
  /\ Has(m, "risk_reasons")
  /\ \E i \in 1..Len(m["risk_reasons"]) : m["risk_reasons"][i].id = id

\* scenario A: "0x" and 64 times "a", chain hint auto, answered, and every
\* lookup that was made failed
ScenarioA ==
  /\ req.pc = "done"
  /\ req.input_id = TxA
  /\ req.chain = "auto"
  /\ calls # <<>>
  /\ \A i \in 1..Len(calls) : calls[i].failed

\* C5: in scenario A no exception escapes analyze, and the Fact Record handed
\* to the renderer has network "ethereum", status "unknown", no transfers and
\* the incomplete/failed-transaction reason
C5_ScenarioA ==
  ScenarioA =>
    /\ ~req.escaped
    /\ Len(rendered) = 1
    /\ rendered[1].meta["network"] = "ethereum"
    /\ LowerText(rendered[1].meta["status"]) = "unknown"
    /\ rendered[1].transfers = <<>>
    /\ HasReason(rendered[1].meta, "incompleta_o_fallida")

\* analyze reached validate_input with this request and was told "invalid"
ClassifiedInvalid ==
  /\ req.pc # "idle"
  /\ ~is_tron_address(Strip(req.input_id))
  /\ validate_input(req.input_id, env.ENABLE_TRON)[1] = "invalid"

C7_InvalidStillRendered ==
  (ClassifiedInvalid /\ req.pc = "done") => Len(rendered) = 1 /\ req.files > 0

\* the quotient q stands for the number n
QuotIs(q, n) == IF IsQuot(q) THEN q[2] = n * q[3] ELSE IsInt(q) /\ q[2] = n

\* scenario B: a TRON address, answered, whose account lookup (line 155)
\* returned the balance 10,000,000 SUN
ScenarioB ==
  /\ req.pc = "done"
  /\ is_tron_address(req.input_id)
  /\ req.acc.balance_trx = Quot(10000000, SUN_PER_TRX)

\* C8: in scenario B the Fact Record handed to the renderer shows the balance
\* 10 TRX, and the risk engine did not add the low-balance (<500) penalty
C8_ScenarioB ==
  ScenarioB =>
    /\ Len(rendered) = 1
    /\ QuotIs(rendered[1].meta["from_balance_trx"], 10)
    /\ ~HasReason(rendered[1].meta, "balance_bajo_500")

\* C10: a request whose identifier starts with "T" and has 34 to 36
\* characters is handled as a TRON address when TRON is enabled; when TRON is
\* disabled it is invalid and no TRON account lookup is made for it
C10_TronAddressGate ==
  (req.pc # "idle" /\ is_tron_address(req.input_id)) =>
    IF env.ENABLE_TRON
      THEN req.kind = "address_tron" /\ meta["network"] = "tron"
      ELSE /\ req.kind = "invalid"
           /\ \A i \in 1..Len(calls) : calls[i].fn # "get_tron_account"

\* the raw input is empty or consists of whitespace only
IsBlank(s) == \A i \in 1..Len(s) : s[i] \in Whitespace

\* C11: an empty or whitespace-only input is classified invalid, with a
\* reason that is a non-empty text
C11_BlankIsInvalid ==
  (cls.pc = "out" /\ IsBlank(cls.raw)) =>
    (cls.kind = "invalid" /\ cls.reason \notin {"None", ""})

C11_Witness ==
  /\ cls.pc = "out"
  /\ cls.raw # <<>>
  /\ IsBlank(cls.raw)
  /\ cls.kind = "invalid"
  /\ cls.reason = ReasonEmpty

\* the trimmed input has the length of "0x" + n characters and starts with
\* "0x", but a character after the prefix is not a hex digit
Is0xNonHex(s, n) ==
  /\ Len(s) = n + 2
  /\ s[1] = "0" /\ s[2] = "x"
  /\ \E i \in 3..(n + 2) : s[i] \notin HexChars

\* C12: the kind is tx or address only if the trimmed input matches the
\* pattern, hex digits included; "0x" followed by 64 or 40 characters of
\* which one is not a hex digit is classified invalid, with a reason
C12_HexRequired ==
  cls.pc = "out" =>
    LET s == Strip(cls.raw)
    IN  /\ cls.kind = "tx" => Is0xHex(s, 64)
        /\ cls.kind = "address" => Is0xHex(s, 40)
        /\ (Is0xNonHex(s, 64) \/ Is0xNonHex(s, 40)) =>
             (cls.kind = "invalid" /\ cls.reason \notin {"None", ""})

\* evaluate has returned its RiskResult
Scored == req.pc = "done" /\ ~req.escaped /\ Has(meta, "risk_score")

\* C13: the score evaluate returns is an integer from 0 to 100, and the band
\* is ALTO iff score >= 70, MEDIO iff 40 <= score < 70, BAJO otherwise
C13_ScoreAndBand ==
  Scored =>
    /\ meta["risk_score"] \in 0..100
    /\ meta["risk_band"] \in {"ALTO", "MEDIO", "BAJO"}
    /\ meta["risk_band"] = "ALTO" <=> meta["risk_score"] >= 70
    /\ meta["risk_band"] = "MEDIO" <=> (40 <= meta["risk_score"] /\ meta["risk_score"] < 70)
    /\ meta["risk_band"] = "BAJO" <=> meta["risk_score"] < 40

C13_Witness ==
  /\ Scored
  /\ meta["risk_score"] = 70
  /\ meta["risk_band"] = "ALTO"

\* C14: the reasons list evaluate returns is never empty
C14_ReasonsNonEmpty ==
  Scored => meta["risk_reasons"] # <<>>

\* the first topic of the log is the Transfer signature (as a hex number,
\* whatever the case of its digits)
HasTransferTopic(lg) == Len(lg.topics) >= 1 /\ Lower(lg.topics[1]) = TRANSFER_SIG

\* a Transfer log with its three topics and a data field that is a hex number
WellFormedTransfer(lg) ==
  /\ HasTransferTopic(lg)
  /\ Len(lg.topics) >= 3
  /\ hex_to_int_safe(lg.data) # None

\* a Transfer log that lacks a topic or whose data is no hex number
MalformedTransfer(lg) == HasTransferTopic(lg) /\ ~WellFormedTransfer(lg)

\* the logs of the receipt that was parsed
ParsedLogs == req.rcpt.result.logs

\* how many of the first i logs are well-formed Transfer logs
WellFormedUpTo(i) == Cardinality({j \in 1..i : WellFormedTransfer(ParsedLogs[j])})

Low20(t) == Prefix0x \o SubSeq(t, Len(t) - 39, Len(t))

\* C15: the parser returns the empty list for a receipt without a Transfer
\* log, and for each well-formed Transfer log exactly one transfer, in log
\* order, with from / to the low 20 bytes of topics 1 and 2, value_raw the
\* integer in data, and contract the address of the log
C15_TransfersOfLogs ==
  req.pc = "done" =>
    /\ (\A i \in 1..Len(ParsedLogs) : ~HasTransferTopic(ParsedLogs[i])) => transfers = <<>>
    /\ Len(transfers) = WellFormedUpTo(Len(ParsedLogs))
    /\ \A i \in 1..Len(ParsedLogs) :
         WellFormedTransfer(ParsedLogs[i]) =>
           /\ WellFormedUpTo(i) <= Len(transfers)
           /\ LET t == transfers[WellFormedUpTo(i)]
                  lg == ParsedLogs[i]
              IN  /\ t.from = Low20(lg.topics[2])
                  /\ t.to = Low20(lg.topics[3])
                  /\ t.value_raw = hex_to_int_safe(lg.data)[2]
                  /\ t.contract = lg.address

\* C16: a malformed Transfer log is skipped on its own: in a receipt that
\* holds one, every well-formed Transfer log before or after it still yields
\* its transfer
C16_MalformedSkipped ==
  (req.pc = "done"
     /\ \E i \in 1..Len(ParsedLogs) : MalformedTransfer(ParsedLogs[i])) =>
    Len(transfers) = WellFormedUpTo(Len(ParsedLogs))

\* C17: the value the account lookup of analyze put into from_balance_trx is
\* the value of that field in the record handed to the renderer, whatever
\* the risk engine does
C17_BalanceWrittenOnce ==
  (req.pc = "done" /\ req.kind = "address_tron" /\ Len(rendered) = 1
     /\ req.acc.balance_trx # None) =>
    rendered[1].meta["from_balance_trx"] = req.acc.balance_trx

RecordFields == {"network", "block", "status", "timestamp", "from", "to", "flow_label"}

\* C18: a request that is not classified invalid is answered without an
\* exception escaping analyze, and the renderer is invoked exactly once for
\* it, with a record that has network, block, status, timestamp, from, to
\* and flow_label
C18_WellFormedRecord ==
  (req.pc = "done" /\ req.kind \notin {"invalid", "None"}) =>
    /\ ~req.escaped
    /\ Len(rendered) = 1
    /\ RecordFields \subseteq DOMAIN rendered[1].meta

\* thread t has made a call in which fn raised
Raised(t) == th[t].pc = "done" /\ th[t].out.k = "exc"

\* C19: when fn raises during a miss, the exception goes to the caller and
\* the cache stays as it was; the cache holds results of fn only, and a call
\* with the key made while the entry is as the failed call found it misses
C19_FailureUncached ==
  /\ [](\A k \in DOMAIN cache : cache[k].val[1] = "v")
  /\ [](\A t \in Threads :
          (Raised(t) /\ CacheGet(cache, th[t].key) = th[t].hit) =>
            ~CacheFresh(CacheGet(cache, th[t].key), clock, env.CACHE_TTL_S))
  /\ [][\A t \in Threads :
          (th[t].pc = "compute" /\ th'[t].pc = "done") =>
            (th'[t].out.k = "exc" /\ cache' = cache)]_vars

\* fn raised for t1, and t2, which entered with the same key afterwards,
\* missed and invoked fn again
C19_Witness ==
  /\ Raised("t1")
  /\ th["t1"].out.v = <<"e", 1>>
  /\ th["t2"].key = th["t1"].key
  /\ th["t2"].now > th["t1"].now
  /\ th["t2"].pc = "write_lock"
  /\ th["t2"].res = <<"v", 2>>

\* C20: the read-check of the cache is made once per lookup and outside the
\* retry loop, so that the retries happen within one miss
C20_CacheWrapsRetry ==
  \A i \in 1..Len(req.checks) : req.checks[i].attempt = 0

\* the failed attempts of the call so far
Failures(f) == Cardinality({j \in 1..Len(f.hist) : ~f.hist[j].ok})

\* C30: with_retries sleeps between attempts only: delay * i after the i-th
\* failed attempt that is followed by another one, and not after the last
\* failed attempt before the raise, nor after a success
C30_SleepsBetweenAttempts ==
  /\ \A i \in 1..Len(rt.slept) : rt.slept[i] = rt.delay * i
  /\ rt.st = "returned" => Len(rt.slept) = Failures(rt)
  /\ rt.st = "raised" => Len(rt.slept) = Failures(rt) - 1

\* evaluate has returned after taking the branch b; its lookup was answered LookedUp
ScoredOn(b) == Scored /\ calls # <<>> /\ calls[1].branch = b

LookedUp == calls[1].o

\* the first account of the answer to the risk engine's TRON lookup, if any
HasTronEntry ==
  LookedUp.k = "json" /\ LookedUp.body.kind = "dict" /\ LookedUp.body.data # <<>>

TronTxCount == IF HasTronEntry THEN LookedUp.body.data[1].totalTransactionCount ELSE 0

TronBalanceSun == IF HasTronEntry THEN LookedUp.body.data[1].balance ELSE 0

Points(b, n) == IF b THEN n ELSE 0

\* what the rules that do not depend on the chain added
GeneralPoints ==
  Points(HasReason(meta, "flujo_saliente"), 5)
    + Points(HasReason(meta, "incompleta_o_fallida"), 10)
    + Points(HasReason(meta, "lista_ponzi"), 25)

\* C27: on a TRON record evaluate adds 20 iff the transaction count of the
\* account is zero and 10 iff its balance is strictly below 500 TRX; from
\* 500 TRX on there is no penalty but the reason of an active balance
C27_TronRules ==
  ScoredOn("tron") =>
    /\ meta["risk_score"] =
         Points(TronTxCount = 0, 20) + Points(TronBalanceSun < 500 * 1000000, 10)
           + GeneralPoints
    /\ HasReason(meta, "balance_bajo_500") <=> TronBalanceSun < 500 * 1000000
    /\ HasReason(meta, "balance_superior_500") <=> TronBalanceSun >= 500 * 1000000

\* the token symbols the answer to the risk engine's token lookup lists
HeldTokens == IF LookedUp.k = "json" THEN LookedUp.body.items ELSE <<>>

HoldsStable == \E i \in 1..Len(HeldTokens) : HeldTokens[i] \in {"USDT", "USDC", "DAI"}

TokenReasons ==
  {i \in 1..Len(meta["risk_reasons"]) :
     meta["risk_reasons"][i].id \in {"sin_tokens", "stablecoins", "sin_stablecoins"}}

\* C28: on an EVM record the token rules add 10 for no tokens, 10 for tokens
\* none of which is USDT, USDC or DAI, and 0 with the stablecoin reason
\* otherwise; exactly one token reason is appended
C28_EvmTokenRules ==
  ScoredOn("evm") =>
    /\ meta["risk_score"] = Points(~HoldsStable, 10) + GeneralPoints
    /\ Cardinality(TokenReasons) = 1
    /\ HasReason(meta, "sin_tokens") <=> HeldTokens = <<>>
    /\ HasReason(meta, "sin_stablecoins") <=> (HeldTokens # <<>> /\ ~HoldsStable)
    /\ HasReason(meta, "stablecoins") <=> HoldsStable

C28_Witness ==
  /\ ScoredOn("evm")
  /\ HeldTokens = <<"WETH", "USDC">>
  /\ HasReason(meta, "stablecoins")
  /\ HasReason(meta, "incompleta_o_fallida")
  /\ meta["risk_score"] = 10

\* analyze found the TRON transaction and filled the record from it
TronTxFound == req.kind = "tx_tron" /\ req.tx.found

Present(a) == a # <<"None">> /\ Len(a) > 0

\* C26: for a TRON transaction that was found the status is Success iff the
\* transaction is confirmed and Pending/Unknown otherwise, and the flow is
\* saliente iff both its sender and its destination are present and
\* desconocido otherwise
C26_TronTxStatusAndFlow ==
  TronTxFound =>
    /\ meta["status"] = (IF req.tx.confirmed = TRUE THEN "Success" ELSE "Pending/Unknown")
    /\ meta["flow_label"] =
         (IF Present(req.tx.from) /\ Present(req.tx.to) THEN "saliente" ELSE "desconocido")

C26_Witness ==
  /\ TronTxFound
  /\ req.pc = "done"
  /\ req.tx.confirmed
  /\ req.tx.from = TronA
  /\ req.tx.to = <<>>
  /\ meta["status"] = "Success"
  /\ meta["flow_label"] = "desconocido"

\* C29: for an EVM address the network is polygon iff the chain hint is
\* polygon and ethereum otherwise, the transfers are empty and the events are
\* exactly one address_scan event, whatever the statistics lookup answered
C29_AddressBranch ==
  req.kind = "address" =>
    /\ meta["network"] = (IF req.chain = "polygon" THEN "polygon" ELSE "ethereum")
    /\ transfers = <<>>
    /\ req.pc = "done" =>
         /\ Len(events) = 1
         /\ events[1].type = "address_scan"
         /\ Len(rendered) = 1
         /\ rendered[1].nevents = 1
         /\ rendered[1].transfers = <<>>

C29_Witness ==
  /\ req.kind = "address"
  /\ req.pc = "done"
  /\ req.chain = "auto"
  /\ meta["network"] = "ethereum"
  /\ \E i \in 1..Len(calls) : calls[i].fn = "get_eth_address_stats" /\ calls[i].failed
  /\ Len(events) = 1
  /\ events[1].type = "address_scan"

\* the answer to a receipt request carries a block number that is not null
CarriesBlock(o) ==
  /\ o.k = "json"
  /\ o.body.kind = "dict"
  /\ o.body.rk = "dict"
  /\ o.body.result.blockNumber # <<"None">>
  /\ o.body.result.blockNumber # <<>>

\* the document a receipt request hands back when it does not fail
Answered(o) == IF o.k = "nonjson" THEN NonJsonDoc ELSE o.body

\* C21: with the hint auto get_tx_receipt probes polygon first and returns
\* its response with "polygon" iff that carries a block number; in every
\* other case, the failure of the probe included, it probes ethereum next and
\* returns that response with "ethereum"; with the hint ethereum it never
\* probes polygon
C21_ProbeOrder ==
  req.pc = "receipt_done" =>
    /\ req.chain = "auto" =>
         /\ calls[1].chain = "polygon"
         /\ IF CarriesBlock(calls[1].o)
              THEN /\ Len(calls) = 1
                   /\ ~req.escaped
                   /\ req.detected_chain = "polygon"
                   /\ req.rcpt = calls[1].o.body
              ELSE /\ Len(calls) = 2
                   /\ calls[2].chain = "ethereum"
                   /\ ~req.escaped =>
                        /\ req.detected_chain = "ethereum"
                        /\ req.rcpt = Answered(calls[2].o)
    /\ req.chain = "ethereum" => \A i \in 1..Len(calls) : calls[i].chain # "polygon"

\* the value a balance or count request hands over: the number its result
\* spells, nothing for every other answer
Spelled(o) ==
  IF o.k = "json" /\ o.body.kind = "dict"
    THEN CASE o.body.result = <<"0", "x", "7">> -> <<"int", 7>>
           [] o.body.result = <<"0", "x", "1", "a">> -> <<"int", 26>>
           [] OTHER -> <<"None">>
    ELSE <<"None">>

\* C22: get_eth_address_stats makes both requests whatever the first one
\* answers, each field is decided by its own request alone (null when that
\* request fails, its value when it succeeds), and the function never raises
C22_FieldsIndependent ==
  req.pc = "stats_done" =>
    /\ Len(calls) = 2
    /\ ~req.escaped
    /\ meta.balance_wei = Spelled(calls[1].o)
    /\ meta.nonce = Spelled(calls[2].o)

C22_Witness ==
  /\ req.pc = "stats_done"
  /\ calls[1].o.k = "exc"
  /\ calls[2].o.k = "json"
  /\ meta.balance_wei = <<"None">>
  /\ meta.nonce = <<"int", 26>>

\* the entries of withPriceTokens that are the TRX balance, and the first one
TrxEntries(doc) ==
  {i \in 1..Len(doc.withPriceTokens) : doc.withPriceTokens[i].tokenAbbr = "TRX"}

FirstTrx(doc) ==
  doc.withPriceTokens[CHOOSE i \in TrxEntries(doc) : \A j \in TrxEntries(doc) : i <= j]

\* the document of an account lookup that carries both a "balance" in SUN and
\* a TRX entry under withPriceTokens
BothBalances(o) ==
  /\ o.k = "json"
  /\ o.body.kind = "dict"
  /\ o.body.hasBalance
  /\ o.body.balance # <<"None">>
  /\ TrxEntries(o.body) # {}

\* C23 as stated: with both fields in the response the TRX entry of
\* withPriceTokens, already in TRX, is what get_tron_account reports
C23_AlternateTakesPrecedence ==
  (req.pc = "account_done" /\ BothBalances(calls[1].o)) =>
    req.acc.balance_trx = <<"num", FirstTrx(calls[1].o.body).balance[2], 1>>

\* C23: get_tron_account reports the "balance" of the response divided by
\* 1,000,000 whenever the response has one; the TRX entry of withPriceTokens
\* is reported as it is only when the response has no "balance"
C23_BalanceFirst ==
  (req.pc = "account_done" /\ calls[1].o.k = "json" /\ calls[1].o.body.kind = "dict") =>
    LET doc == calls[1].o.body
    IN  req.acc.balance_trx =
          (IF doc.hasBalance /\ doc.balance # <<"None">>
             THEN <<"num", doc.balance[2], 1000000>>
           ELSE IF ~doc.hasBalance /\ TrxEntries(doc) # {}
             THEN <<"num", FirstTrx(doc).balance[2], 1>>
           ELSE <<"None">>)

C23_Witness ==
  /\ req.pc = "account_done"
  /\ BothBalances(calls[1].o)
  /\ req.acc.balance_trx = <<"num", 10000000, 1000000>>

\* lines 199-239 have run on the receipt of the request
Labelled == req.kind = "tx" /\ req.pc \in {"stats_from", "stats_to", "tx_finish"}

\* two addresses are the same up to the case of their letters
SameAddress(a, b) == a # <<"None">> /\ b # <<"None">> /\ Lower(a) = Lower(b)

AsSource == \E i \in 1..Len(transfers) : SameAddress(transfers[i].from, meta["from"])

AsDestination == \E i \in 1..Len(transfers) : SameAddress(transfers[i].to, meta["from"])

C25_StatusOfCode ==
  Labelled =>
    LET code == req.rcpt.result.status
    IN  /\ meta["status"] = "Success" <=> code = <<"0", "x", "1">>
        /\ meta["status"] = "Failed" <=> code = <<"0", "x", "0">>
        /\ meta["status"] = "Unknown" <=> code \notin {<<"0", "x", "1">>, <<"0", "x", "0">>}

C25_Witness ==
  /\ Labelled
  /\ req.rcpt.result.status = <<"0", "x", "0", "1">>
  /\ meta["status"] = "Unknown"

\* the thread is inside one of the two `with _cache_lock:` blocks
InLock(t) == th[t].pc \in {"read", "write"}

\* C31: under every interleaving the cache is read and written only by the
\* thread that holds the lock, fn runs outside the lock, concurrent misses on
\* one key may both compute, every caller returns an entry that was within
\* ttl at its read-check or the result of its own computation, and a lock
\* that is held is released
C31_LockDiscipline ==
  /\ [](\A t \in Threads :
          /\ InLock(t) <=> lock = t
          /\ th[t].pc = "done" /\ th[t].out.k = "ret" =>
               \/ /\ th[t].inv = 0
                  /\ th[t].hit.some
                  /\ th[t].now - th[t].hit.ts < env.CACHE_TTL_S
                  /\ th[t].out.v = th[t].hit.val
               \/ /\ th[t].inv = 1
                  /\ th[t].out.v = th[t].res)
  /\ [][\A t \in Threads :
          /\ (th[t].pc # "done" /\ th'[t].hit # th[t].hit) =>
               (lock = t /\ th'[t].hit = CacheGet(cache, th[t].key))
          /\ th'[t].inv # th[t].inv => (lock # t /\ lock' # t)
          /\ (lock = t /\ th'[t] # th[t]) => lock' = "free"]_vars
  /\ [][cache' # cache =>
          \E t \in Threads :
            /\ lock = t
            /\ cache' = CachePut(cache, th[t].key, th[t].now, th[t].res)
            /\ th[t].inv = 1]_vars
  /\ \A t \in Threads : (lock = t) ~> (lock = "free")

\* both threads missed on the same key and both computed: the second write
\* replaced the entry of the first, and each returned its own result
C31_Witness ==
  /\ th["t1"].key = th["t2"].key
  /\ th["t1"].pc = "done" /\ th["t2"].pc = "done"
  /\ th["t1"].inv = 1 /\ th["t2"].inv = 1
  /\ th["t1"].hit = th["t2"].hit
  /\ th["t1"].out = [k |-> "ret", v |-> <<"v", 1>>]
  /\ th["t2"].out = [k |-> "ret", v |-> <<"v", 2>>]
  /\ lock = "free"

\* the call of the thread stored its result
Stored(t) == th[t].pc = "done" /\ th[t].out.k = "ret" /\ th[t].inv = 1

\* C36: the inserted_at stored for a key never decreases; in particular,
\* while a call that stored its result rests, the entry of its key is stamped
\* no earlier than the entry that call wrote
C36_StampNeverDecreases ==
  \A t \in Threads :
    Stored(t) => CacheGet(cache, th[t].key).ts >= th[t].now

\* C32: a Fact Record that analyze produces, in whatever branch and whatever
\* the lookups answer, has a risk_score of at most 45 and a risk_band other
\* than ALTO, and the rule of the known Ponzi list has not fired
C32_ScoreCeiling ==
  /\ Has(meta, "risk_score") =>
       /\ meta["risk_score"] <= 45
       /\ meta["risk_band"] # "ALTO"
       /\ ~HasReason(meta, "lista_ponzi")
  /\ \A i \in 1..Len(rendered) :
       Has(rendered[i].meta, "risk_score") =>
         /\ rendered[i].meta["risk_score"] <= 45
         /\ rendered[i].meta["risk_band"] # "ALTO"

\* a TRON transaction that is not confirmed, whose sender has no
\* transactions and a low balance: every rule but the Ponzi one has fired
C32_Witness ==
  /\ req.pc = "done"
  /\ req.kind = "tx_tron"
  /\ Len(rendered) = 1
  /\ Has(rendered[1].meta, "risk_score")
  /\ rendered[1].meta["risk_score"] = 45
  /\ rendered[1].meta["risk_band"] = "MEDIO"
  /\ HasReason(meta, "sin_transacciones")
  /\ HasReason(meta, "balance_bajo_500")
  /\ HasReason(meta, "flujo_saliente")
  /\ HasReason(meta, "incompleta_o_fallida")

\* the request went into a branch that looks the identifier up
LooksUp == req.kind \in {"tx", "tx_tron", "address", "address_tron"}

\* C34: the identifier stored in the Fact Record (tx_hash, and from for an
\* address) and handed to the lookups is the trimmed text the classifier
\* classified, also when the input has whitespace around it
C34_TrimmedIdentifier ==
  LooksUp =>
    /\ meta["tx_hash"] = Strip(req.input_id)
    /\ req.kind \in {"address", "address_tron"} => meta["from"] = Strip(req.input_id)
    /\ \A i \in 1..Len(req.checks) :
         (req.kind = "address" /\ req.checks[i].key[1] = "_stats") =>
           req.checks[i].key[2] = Strip(req.input_id)

\* C35: with ENABLE_RISK false the risk engine is invoked in no branch, and
\* the record handed to the renderer has no risk_score, risk_band or
\* risk_reasons
C35_RiskFlagOff ==
  ~env.ENABLE_RISK =>
    /\ req.risk_calls = 0
    /\ \A i \in 1..Len(rendered) :
         \A k \in {"risk_score", "risk_band", "risk_reasons"} : ~Has(rendered[i].meta, k)

\* the files a call of generate_docx_and_maybe_pdf wrote
PathsOf(r) ==
  {<<"Informe_Wallet_Synapxis_", r.short, "_FINAL", ext>> :
     ext \in (IF r.files = 2 THEN {".docx", ".pdf"} ELSE {".docx"})}

\* C33: two requests for different identifiers never write the same
\* artifact path, so that the report of one is not overwritten by the other
C33_DistinctArtifactPaths ==
  \A i, j \in 1..Len(rendered) :
    Strip(rendered[i].identifier) # Strip(rendered[j].identifier) =>
      PathsOf(rendered[i]) \cap PathsOf(rendered[j]) = {}

\* every field of the result of a lookup is null
Degraded(result) == \A f \in DOMAIN result : result[f] = <<"None">>

\* C37: a result that is all null because the external call failed is stored
\* like any other: every later call with the same key made less than ttl
\* after it returns that result without invoking the adapter, also when the
\* external source is answering again
C37_DegradedIsCached ==
  \A i, j \in 1..Len(calls) :
    (/\ i < j
     /\ calls[i].key = calls[j].key
     /\ calls[i].invoked
     /\ ~calls[i].up
     /\ Degraded(calls[i].result)
     /\ calls[j].now - calls[i].now < env.CACHE_TTL_S) =>
      /\ ~calls[j].invoked
      /\ calls[j].result = calls[i].result

\* the balance lookup failed at time 0; at time 1, within a ttl of 2 and with
\* the source answering again, the same lookup returned the stored nulls
C37_Witness ==
  /\ Len(calls) >= 2
  /\ calls[1].key[1] = "_stats"
  /\ calls[2].key = calls[1].key
  /\ calls[1].invoked /\ ~calls[1].up /\ Degraded(calls[1].result)
  /\ calls[2].now > calls[1].now
  /\ calls[2].up
  /\ ~calls[2].invoked
  /\ Degraded(calls[2].result)

====
